---- MODULE Spec2Model ----
(***************************************************************************)
(* A model of the oonidata ingestion pipeline: the container cache         *)
(* (download_measurement_container), the jsonl catalog (jsonl_in_range),   *)
(* the streaming driver (stream_measurements), the container reader        *)
(* (load_multiple) and the web_connectivity observation processor.         *)
(*                                                                         *)
(* Every subsystem has its own specification over the same variables; the  *)
(* variables of the other subsystems stay at their initial values.         *)
(***************************************************************************)
EXTENDS Integers, Sequences, FiniteSets, TLC

\* ------------------------------------------------------------------ bounds

\* Concurrent callers of download_measurement_container on one cache root.
NProcs == 2
\* Calls each caller makes.
MaxCalls == 3
\* Calls all concurrent callers make together.
MaxTotalCalls == 3

None == "None"

Max(a, b) == IF a >= b THEN a ELSE b
Min(a, b) == IF a <= b THEN a ELSE b
Range(f) == {f[x] : x \in DOMAIN f}

\* ===================================================================
\* Part 1: the container cache, s3feeder.py download_measurement_container
\* ===================================================================

\* FileEntry values the cache is asked for.  A filename is kept as its
\* dot-separated segments.  Entries 1 and 2 lie in the same directory and
\* differ only in the last suffix of the filename.
FileEntries ==
  <<[test_name |-> "whatsapp", country_code |-> "VE", day |-> 1,
     filename |-> <<"c", "tar", "gz">>, size |-> 2],
    [test_name |-> "whatsapp", country_code |-> "VE", day |-> 1,
     filename |-> <<"c", "tar", "lz4">>, size |-> 3],
    [test_name |-> "whatsapp", country_code |-> "VE", day |-> 1,
     filename |-> <<"d", "jsonl", "gz">>, size |-> 2]>>

EntryIds == DOMAIN FileEntries
Procs == 1..NProcs

\* FileEntry.output_path: dst_dir / test_name / country_code / day / filename
output_path(e) ==
  [parent |-> <<FileEntries[e].test_name, FileEntries[e].country_code,
                FileEntries[e].day>>,
   name |-> FileEntries[e].filename]

\* A faulty variant of with_suffix: the temporary file is the cache file itself.
with_suffix_same(path, sfx) == path

\* pathlib.Path.with_suffix: the last suffix of the name is replaced; a name
\* without a suffix gets the new one appended.
with_suffix(path, sfx) ==
  [path EXCEPT !.name =
     IF Len(@) > 1 THEN SubSeq(@, 1, Len(@) - 1) \o <<sfx>> ELSE @ \o <<sfx>>]

tmp_path(e) == with_suffix(output_path(e), "s3tmp")

Paths == {output_path(e) : e \in EntryIds} \cup {tmp_path(e) : e \in EntryIds}

\* Inodes: enough for every path and every open descriptor.
Inodes == 1..(Cardinality(Paths) + NProcs)

\* A hole of a sparse file (a write past the end after a truncation).
Hole == [e |-> 0, p |-> 0, c |-> 0, i |-> 0, n |-> 0]

\* Chunk i of n of the download that call c of process p makes for entry e.
Chunk(e, p, c, i, n) == [e |-> e, p |-> p, c |-> c, i |-> i, n |-> n]

EmptyFile == [data |-> <<>>, touched |-> FALSE]

\* What the storage may send for an entry whose listing said `size`: the
\* object as listed, or an object that is one chunk short.
RemoteLens(e) == {FileEntries[e].size, FileEntries[e].size - 1}

VARIABLES
  dir,      \* the cache directory tree: path -> inode, 0 when absent
  inodes,   \* inode -> [data, touched]
  pc,       \* per caller: position in download_measurement_container
  fe,       \* per caller: the file entry of the call
  fd,       \* per caller: inode of the open temporary file, 0 when closed
  off,      \* per caller: write offset of the open file
  remote,   \* per caller: length of the object being transferred
  ret,      \* per caller: the returned path
  calls,    \* per caller: calls started
  hit,      \* per caller: the call was a cache hit
  dls,      \* per caller: s3.download_fileobj calls of this call
  stale,    \* per caller: the miss found a file of the wrong size
  synced,   \* per caller: flush and fsync done on the temporary file
  renames   \* per caller: renames of this call

cacheVars == <<dir, inodes, pc, fe, fd, off, remote, ret, calls, hit, dls,
               stale, synced, renames>>

VARIABLES
  cat_in,       \* jsonl_in_range: the arguments (ccs, testnames, start_day, end_day)
  cat_pc,       \* jsonl_in_range: position
  cat_pending,  \* prefixes handed to the pool whose listing has not come back
  cat_listed,   \* file entries the pool has returned so far
  cat_out,      \* file entries yielded so far
  cat_count     \* number of yields so far

catVars == <<cat_in, cat_pc, cat_pending, cat_listed, cat_out, cat_count>>

VARIABLES
  str_in,        \* stream_measurements: file_entries, its kind, keep_s3_cache
  str_pc,        \* position in stream_measurements
  str_cursor,    \* entries the file_entries iterator has handed out
  str_pos,       \* entries the for loop has taken
  str_cur,       \* the entry of the current iteration (fe)
  str_rec,       \* records of the current container yielded so far
  str_total,     \* total_size
  str_processed, \* processed_size
  str_cached,    \* containers present in the cache directory
  str_downloads, \* entries handed to download_measurement_container, in order
  str_out        \* records yielded, in order

strVars == <<str_in, str_pc, str_cursor, str_pos, str_cur, str_rec, str_total,
             str_processed, str_cached, str_downloads, str_out>>

VARIABLES
  wc_msmt,          \* web_connectivity_processor: the measurement
  wc_pc,            \* position in web_connectivity_processor
  wc_dns,           \* dns_observations
  wc_tls,           \* tls_observations
  wc_ip_to_domain,  \* ip_to_domain
  wc_db             \* the write_row calls made, in order

wcVars == <<wc_msmt, wc_pc, wc_dns, wc_tls, wc_ip_to_domain, wc_db>>

VARIABLES
  lm_in,   \* load_multiple: the container being read
  lm_pc,   \* position in load_multiple
  lm_m,    \* tar members read so far
  lm_l,    \* lines of the current member (or file) read so far
  lm_out   \* records yielded, in order

lmVars == <<lm_in, lm_pc, lm_m, lm_l, lm_out>>

VARIABLES
  pd_in,   \* process_day: the raw measurements of the day and start_at_idx
  pd_pc,   \* position in process_day
  pd_idx,  \* raw measurements taken from the stream so far
  pd_db    \* the write_row calls made, in order, with the idx of the record

pdVars == <<pd_in, pd_pc, pd_idx, pd_db>>

VARIABLES
  ls_in,   \* a listing: the function called and the keys of one page
  ls_pc,   \* position in the listing generator
  ls_i,    \* keys of the listing handled so far
  ls_out,  \* the FileEntry tuples yielded, in order
  ls_fails,    \* how many requests of the remote listing fail in a row
  ls_attempts  \* requests of the remote listing made so far

lsVars == <<ls_in, ls_pc, ls_i, ls_out, ls_fails, ls_attempts>>

VARIABLES
  di_in,   \* date_interval: the arguments (start_day, end_day)
  di_pc,   \* position in the generator
  di_day,  \* day
  di_out   \* the days yielded, in order

diVars == <<di_in, di_pc, di_day, di_out>>

vars == <<cacheVars, catVars, strVars, wcVars, lmVars, pdVars, lsVars, diVars>>

notCache == <<catVars, strVars, wcVars, lmVars, pdVars, lsVars, diVars>>
notCat == <<cacheVars, strVars, wcVars, lmVars, pdVars, lsVars, diVars>>
notStr == <<cacheVars, catVars, wcVars, lmVars, pdVars, lsVars, diVars>>
notWc == <<cacheVars, catVars, strVars, lmVars, pdVars, lsVars, diVars>>
notLm == <<cacheVars, catVars, strVars, wcVars, pdVars, lsVars, diVars>>
notPd == <<cacheVars, catVars, strVars, wcVars, lmVars, lsVars, diVars>>
notLs == <<cacheVars, catVars, strVars, wcVars, lmVars, pdVars, diVars>>
notDi == <<cacheVars, catVars, strVars, wcVars, lmVars, pdVars, lsVars>>

Exists(path) == dir[path] # 0
StSize(path) == Len(inodes[dir[path]].data)

\* A faulty variant of CacheValid: the size comparison is dropped.
CacheValid_exists_only(e) == Exists(output_path(e))

\* A faulty variant of CacheValid: the comparison is strict.
CacheValid_strict(e) ==
  Exists(output_path(e)) /\ FileEntries[e].size < StSize(output_path(e))

\* diskf.exists() and file_entry.size == diskf.stat().st_size
CacheValid(e) ==
  Exists(output_path(e)) /\ FileEntries[e].size = StSize(output_path(e))

\* The inode table with every unreferenced inode cleared.
Collect(d, f, ino) ==
  [i \in Inodes |->
     IF i \in Range(d) \/ i \in Range(f) THEN ino[i] ELSE EmptyFile]

FreeInode(d, f) == CHOOSE i \in Inodes : i \notin Range(d) /\ i \notin Range(f)

\* write(2) of one chunk at an offset: overwrites, appends, or leaves a hole.
WriteAt(data, o, c) ==
  [i \in 1..Max(Len(data), o + 1) |->
     IF i = o + 1 THEN c ELSE IF i <= Len(data) THEN data[i] ELSE Hole]

CacheStart ==
  /\ dir = [path \in Paths |-> 0]
  /\ inodes = [i \in Inodes |-> EmptyFile]
  /\ pc = [p \in Procs |-> "idle"]
  /\ fe = [p \in Procs |-> 1]
  /\ fd = [p \in Procs |-> 0]
  /\ off = [p \in Procs |-> 0]
  /\ remote = [p \in Procs |-> 0]
  /\ ret = [p \in Procs |-> None]
  /\ calls = [p \in Procs |-> 0]
  /\ hit = [p \in Procs |-> FALSE]
  /\ dls = [p \in Procs |-> 0]
  /\ stale = [p \in Procs |-> FALSE]
  /\ synced = [p \in Procs |-> FALSE]
  /\ renames = [p \in Procs |-> 0]

\* download_measurement_container(s3cachedir, file_entry) is entered.
Call(p, e) ==
  /\ pc[p] = "idle"
  /\ calls[p] < MaxCalls
  /\ pc' = [pc EXCEPT ![p] = "check"]
  /\ fe' = [fe EXCEPT ![p] = e]
  /\ calls' = [calls EXCEPT ![p] = @ + 1]
  /\ ret' = [ret EXCEPT ![p] = None]
  /\ hit' = [hit EXCEPT ![p] = FALSE]
  /\ dls' = [dls EXCEPT ![p] = 0]
  /\ stale' = [stale EXCEPT ![p] = FALSE]
  /\ synced' = [synced EXCEPT ![p] = FALSE]
  /\ renames' = [renames EXCEPT ![p] = 0]
  /\ remote' = [remote EXCEPT ![p] = 0]
  /\ UNCHANGED <<dir, inodes, fd, off>>

\* The cache hit: touch the file and return it.  touch(exist_ok=True) makes
\* an empty file when the path has gone.
CacheHit(p) ==
  /\ pc[p] = "check"
  /\ CacheValid(fe[p])
  /\ LET diskf == output_path(fe[p]) IN
       IF Exists(diskf)
       THEN /\ inodes' = [inodes EXCEPT ![dir[diskf]].touched = TRUE]
            /\ dir' = dir
       ELSE /\ dir' = [dir EXCEPT ![diskf] = FreeInode(dir, fd)]
            /\ inodes' = [inodes EXCEPT ![FreeInode(dir, fd)] = EmptyFile]
  /\ pc' = [pc EXCEPT ![p] = "done"]
  /\ ret' = [ret EXCEPT ![p] = output_path(fe[p])]
  /\ hit' = [hit EXCEPT ![p] = TRUE]
  /\ UNCHANGED <<fe, fd, off, remote, calls, dls, stale, synced, renames>>

\* The cache miss: the file is absent or has another size.
CacheMiss(p) ==
  /\ pc[p] = "check"
  /\ ~CacheValid(fe[p])
  /\ pc' = [pc EXCEPT ![p] = "open"]
  /\ stale' = [stale EXCEPT ![p] = Exists(output_path(fe[p]))]
  /\ UNCHANGED <<dir, inodes, fe, fd, off, remote, ret, calls, hit, dls,
                 synced, renames>>

\* diskf.parent.mkdir(...); tmpf = diskf.with_suffix(".s3tmp");
\* tmpf.open("wb") creates the file or truncates it; the transfer starts.
OpenTmp(p) ==
  /\ pc[p] = "open"
  /\ LET tmpf == with_suffix(output_path(fe[p]), "s3tmp")
         ino == IF Exists(tmpf) THEN dir[tmpf] ELSE FreeInode(dir, fd)
     IN /\ dir' = [dir EXCEPT ![tmpf] = ino]
        /\ inodes' = [inodes EXCEPT ![ino] = EmptyFile]
        /\ fd' = [fd EXCEPT ![p] = ino]
  /\ off' = [off EXCEPT ![p] = 0]
  /\ \E n \in RemoteLens(fe[p]) : remote' = [remote EXCEPT ![p] = n]
  /\ dls' = [dls EXCEPT ![p] = @ + 1]
  /\ pc' = [pc EXCEPT ![p] = "write"]
  /\ UNCHANGED <<fe, ret, calls, hit, stale, synced, renames>>

\* s3.download_fileobj writes the next chunk through the open descriptor.
WriteChunk(p) ==
  /\ pc[p] = "write"
  /\ off[p] < remote[p]
  /\ inodes' = [inodes EXCEPT ![fd[p]].data =
       WriteAt(@, off[p], Chunk(fe[p], p, calls[p], off[p] + 1, remote[p]))]
  /\ off' = [off EXCEPT ![p] = @ + 1]
  /\ UNCHANGED <<dir, pc, fe, fd, remote, ret, calls, hit, dls, stale, synced,
                 renames>>

\* The transfer raises: the with block closes the file and the exception
\* leaves the function.
TransferError(p) ==
  /\ pc[p] = "write"
  /\ off[p] < remote[p]
  /\ fd' = [fd EXCEPT ![p] = 0]
  /\ inodes' = Collect(dir, fd', inodes)
  /\ pc' = [pc EXCEPT ![p] = "error"]
  /\ UNCHANGED <<dir, fe, off, remote, ret, calls, hit, dls, stale, synced,
                 renames>>

\* f.flush(); os.fsync(f.fileno()); the with block closes the file.
FsyncClose(p) ==
  /\ pc[p] = "write"
  /\ off[p] = remote[p]
  /\ synced' = [synced EXCEPT ![p] = TRUE]
  /\ fd' = [fd EXCEPT ![p] = 0]
  /\ inodes' = Collect(dir, fd', inodes)
  /\ pc' = [pc EXCEPT ![p] = "rename"]
  /\ UNCHANGED <<dir, fe, off, remote, ret, calls, hit, dls, stale, renames>>

\* tmpf.rename(diskf): FileNotFoundError when the temporary file has gone.
Rename(p) ==
  /\ pc[p] = "rename"
  /\ LET diskf == output_path(fe[p])
         tmpf == with_suffix(diskf, "s3tmp")
     IN IF ~Exists(tmpf)
        THEN /\ pc' = [pc EXCEPT ![p] = "error"]
             /\ UNCHANGED <<dir, inodes, renames>>
        ELSE /\ dir' = [[dir EXCEPT ![tmpf] = 0] EXCEPT ![diskf] = dir[tmpf]]
             /\ inodes' = Collect(dir', fd, inodes)
             /\ renames' = [renames EXCEPT ![p] = @ + 1]
             /\ pc' = [pc EXCEPT ![p] = "assert"]
  /\ UNCHANGED <<fe, fd, off, remote, ret, calls, hit, dls, stale, synced>>

\* assert file_entry.size == diskf.stat().st_size; return diskf
AssertSize(p) ==
  /\ pc[p] = "assert"
  /\ LET diskf == output_path(fe[p]) IN
       IF Exists(diskf) /\ FileEntries[fe[p]].size = StSize(diskf)
       THEN /\ pc' = [pc EXCEPT ![p] = "done"]
            /\ ret' = [ret EXCEPT ![p] = diskf]
       ELSE /\ pc' = [pc EXCEPT ![p] = "error"]
            /\ ret' = ret
  /\ UNCHANGED <<dir, inodes, fe, fd, off, remote, calls, hit, dls, stale,
                 synced, renames>>

\* The call is over (returned or raised); the caller may call again.
Finish(p) ==
  /\ pc[p] \in {"done", "error"}
  /\ calls[p] < MaxCalls
  /\ pc' = [pc EXCEPT ![p] = "idle"]
  /\ UNCHANGED <<dir, inodes, fe, fd, off, remote, ret, calls, hit, dls,
                 stale, synced, renames>>

Download(p) ==
  \/ \E e \in EntryIds : Call(p, e) /\ UNCHANGED notCache
  \/ CacheHit(p) /\ UNCHANGED notCache
  \/ CacheMiss(p) /\ UNCHANGED notCache
  \/ OpenTmp(p) /\ UNCHANGED notCache
  \/ WriteChunk(p) /\ UNCHANGED notCache
  \/ TransferError(p) /\ UNCHANGED notCache
  \/ FsyncClose(p) /\ UNCHANGED notCache
  \/ Rename(p) /\ UNCHANGED notCache
  \/ AssertSize(p) /\ UNCHANGED notCache
  \/ Finish(p) /\ UNCHANGED notCache

\* One program run: stream_measurements downloads its entries one by one.
NextCacheSeq == Download(1)

CatIdle ==
  /\ cat_in = [ccs |-> {}, testnames |-> {}, start_day |-> 0, end_day |-> 0]
  /\ cat_pc = "idle"
  /\ cat_pending = {}
  /\ cat_listed = {}
  /\ cat_out = {}
  /\ cat_count = 0

StrIdle ==
  /\ str_in = [entries |-> <<>>, single_pass |-> FALSE, keep_s3_cache |-> FALSE]
  /\ str_pc = "idle"
  /\ str_cursor = 0
  /\ str_pos = 0
  /\ str_cur = 0
  /\ str_rec = 0
  /\ str_total = 0
  /\ str_processed = 0
  /\ str_cached = {}
  /\ str_downloads = <<>>
  /\ str_out = <<>>

WcIdle ==
  /\ wc_msmt = [queries |-> <<>>, tcp_connect |-> <<>>,
                tls_handshakes |-> <<>>, requests |-> <<>>]
  /\ wc_pc = "idle"
  /\ wc_dns = <<>>
  /\ wc_tls = <<>>
  /\ wc_ip_to_domain = <<>>
  /\ wc_db = <<>>

LmIdle ==
  /\ lm_in = [ext |-> "", members |-> <<>>]
  /\ lm_pc = "idle"
  /\ lm_m = 0
  /\ lm_l = 0
  /\ lm_out = <<>>

PdIdle ==
  /\ pd_in = [records |-> <<>>, start_at_idx |-> 0]
  /\ pd_pc = "idle"
  /\ pd_idx = 0
  /\ pd_db = <<>>

LsIdle ==
  /\ ls_in = [fn |-> "", keys |-> <<>>]
  /\ ls_pc = "idle"
  /\ ls_i = 0
  /\ ls_out = <<>>
  /\ ls_fails = 0
  /\ ls_attempts = 0

DiIdle ==
  /\ di_in = [start_day |-> 0, end_day |-> 0]
  /\ di_pc = "idle"
  /\ di_day = 0
  /\ di_out = <<>>

InitCache ==
  CacheStart /\ CatIdle /\ StrIdle /\ WcIdle /\ LmIdle /\ PdIdle /\ LsIdle /\ DiIdle

SpecCacheSeq == InitCache /\ [][NextCacheSeq]_vars

\* Several runs share one cache root.
TotalCalls(c) == c[1] + (IF NProcs > 1 THEN c[2] ELSE 0)
                 + (IF NProcs > 2 THEN c[3] ELSE 0)

NextCache == \E p \in Procs : Download(p) /\ TotalCalls(calls') <= MaxTotalCalls

SpecCache == InitCache /\ [][NextCache]_vars

\* ------------------------------------------------- claims on the cache

\* The data every path of the cache holds.
FileContents ==
  [path \in Paths |->
     IF dir[path] = 0 THEN [present |-> FALSE, data |-> <<>>]
     ELSE [present |-> TRUE, data |-> inodes[dir[path]].data]]

\* The cache is populated for an entry: the file is there with the listed size.
Populated(e) ==
  /\ dir[output_path(e)] # 0
  /\ Len(inodes[dir[output_path(e)]].data) = FileEntries[e].size

\* C1: on a populated cache a call makes no download, creates no temporary
\* file, returns the cache path and leaves every file's content as it was,
\* so that the cache is still populated for the next call.
C1_CacheHitIdempotent ==
  [][\A p \in Procs :
       (pc[p] = "check" /\ Populated(fe[p]) /\ pc'[p] # "check")
         => /\ pc'[p] = "done"
            /\ ret'[p] = output_path(fe[p])
            /\ dls'[p] = 0
            /\ FileContents' = FileContents
            /\ Populated(fe[p])']_vars

\* A third call of a caller returned from a populated cache.
C1_Witness ==
  \E p \in Procs :
    pc[p] = "done" /\ hit[p] /\ calls[p] = 3 /\ dls[p] = 0 /\ Populated(fe[p])

\* C2: a returned path names a file of the listed size, and a download of
\* another size never ends in a return.
C2_ReturnedFileHasSize ==
  \A p \in Procs :
    pc[p] = "done" =>
      /\ ret[p] = output_path(fe[p])
      /\ dir[ret[p]] # 0
      /\ Len(inodes[dir[ret[p]]].data) = FileEntries[fe[p]].size
      /\ (~hit[p] => remote[p] = FileEntries[fe[p]].size)

\* A call found a file of the wrong size at the cache path, did not serve
\* it, downloaded again and returned.
C2_Witness ==
  \E p \in Procs : pc[p] = "done" /\ ~hit[p] /\ stale[p] /\ dls[p] = 1

\* A download is under way and its rename has not happened.
InProgress(p) == pc[p] \in {"write", "rename"}

FinalHoldsNoBytesOf(p) ==
  \A e \in EntryIds :
    dir[output_path(e)] # 0 =>
      \A i \in DOMAIN inodes[dir[output_path(e)]].data :
        LET c == inodes[dir[output_path(e)]].data[i]
        IN ~(c.p = p /\ c.c = calls[p])

\* C4: the bytes of a download reach the final cache path by one rename, made
\* after the flush and fsync; before it the path holds none of them.
C4_RenameIsCommitPoint ==
  /\ [](\A p \in Procs :
          /\ (InProgress(p) => FinalHoldsNoBytesOf(p))
          /\ renames[p] <= 1
          /\ (pc[p] = "done" /\ ~hit[p] => renames[p] = 1))
  /\ [][\A e \in EntryIds :
          FileContents'[output_path(e)] # FileContents[output_path(e)]
            => \E p \in Procs :
                 /\ pc[p] = "rename" /\ pc'[p] = "assert" /\ fe[p] = e
                 /\ synced[p] /\ fd[p] = 0
                 /\ renames'[p] = renames[p] + 1]_vars

\* A download has written all its bytes and is about to rename, and another
\* one has committed.
C4_Witness ==
  \E p \in Procs :
    /\ pc[p] = "rename" /\ synced[p] /\ off[p] = remote[p] /\ off[p] > 0
    /\ calls[p] > 1

UsesTmp(p) == pc[p] \in {"write", "rename"}

\* The file at the final path of an entry is one whole download of that
\* entry, and nobody is writing to it.
Committed(e) ==
  LET data == inodes[dir[output_path(e)]].data IN
    /\ Len(data) > 0
    /\ \A i \in DOMAIN data :
         data[i] = Chunk(e, data[1].p, data[1].c, i, Len(data))
    /\ \A p \in Procs : fd[p] # dir[output_path(e)]

\* C3: concurrent writers never share a temporary file, and a final cache
\* path only ever holds one complete committed download.
C3_ConcurrentWritersSafe ==
  /\ \A p, q \in Procs :
       (p # q /\ UsesTmp(p) /\ UsesTmp(q))
         => with_suffix(output_path(fe[p]), "s3tmp")
              # with_suffix(output_path(fe[q]), "s3tmp")
  /\ \A e \in EntryIds : dir[output_path(e)] # 0 => Committed(e)

\* The second half of C3 alone: what a reader finds at a final path.
ReaderSeesCommitted ==
  \A e \in EntryIds : dir[output_path(e)] # 0 => Committed(e)

\* The download of p was aborted during the transfer.
Aborted(p) == pc[p] = "error" /\ ~synced[p] /\ renames[p] = 0

\* C15: after a download was aborted during the transfer no temporary file
\* of its entry remains in the cache, and the abort leaves the final cache
\* path as it was.
C15_AbortUnlinksTmp ==
  /\ [](\A p \in Procs : Aborted(p) => ~Exists(tmp_path(fe[p])))
  /\ [][\A p \in Procs :
          (pc[p] = "write" /\ pc'[p] = "error")
            => FileContents'[output_path(fe[p])]
                 = FileContents[output_path(fe[p])]]_vars

\* What the code does: the aborted download leaves its temporary file in
\* the cache, holding what was transferred; the final path is as it was.
C15_AbortLeavesTmp ==
  /\ [](\A p \in Procs :
          Aborted(p) =>
            /\ Exists(tmp_path(fe[p]))
            /\ StSize(tmp_path(fe[p])) = off[p])
  /\ [][\A p \in Procs :
          (pc[p] = "write" /\ pc'[p] = "error")
            => FileContents'[output_path(fe[p])]
                 = FileContents[output_path(fe[p])]]_vars

\* ===================================================================
\* Part 2: the jsonl catalog, s3feeder.py get_jsonl_prefixes, jsonl_in_range
\* ===================================================================

\* Calendar days are numbered from 2020-10-19 (day 0); DayNames[d + 1] is
\* day d in the %Y%m%d form of the bucket keys.
DayNames == <<"20201019", "20201020", "20201021", "20201022", "20201023",
              "20201024", "20201025">>

\* date.today(): the first day for which the bucket holds nothing yet.
Today == 3
\* date(2020, 10, 20)
D_2020_10_20 == 1
\* date(2020, 10, 21)
D_2020_10_21 == 2
\* The number of (prefix, day) combinations above which get_jsonl_prefixes
\* changes its listing; 1_000_000 in the code, scaled to the bucket below.
ComboLimit == 5

\* A missing day (None).
NoDay == 0 - 1

Days == 0..(Today - 1)
CountryCodes == {"IT", "VE"}
TestNames == {"webconnectivity", "telegram"}

\* f"{d:%Y%m%d}"
strftime(d) == DayNames[d + 1]
\* datetime.strptime(s, "%Y%m%d").date()
strptime(s) == CHOOSE d \in 0..(Len(DayNames) - 1) : DayNames[d + 1] = s

\* A new-format filename <YYYYMMDDHH>_<CC>_<test>.n<X>.<Y>.<ext>, kept as its
\* "_"-separated parts; the first is (day, hour), the third its "."-separated
\* segments.
Filename(d, cc, tn, n, ext) == <<<<strftime(d), "00">>, cc, <<tn, n, "0", ext>>>>

\* jsonl/<test_name>/<CC>/<YYYYMMDD>/<HH>/<filename>
JsonlObject(tn, cc, d, n, size) ==
  [key |-> <<"jsonl", tn, cc, strftime(d), "00",
             Filename(d, cc, tn, n, "jsonl.gz")>>,
   size |-> size]

\* raw/<YYYYMMDD>/<HH>/<CC>/<test>/<filename>
RawObject(tn, cc, d, n, size) ==
  [key |-> <<"raw", strftime(d), "00", cc, tn,
             Filename(d, cc, tn, n, "tar.gz")>>,
   size |-> size]

\* The objects of the bucket ooni-data-eu-fra: webconnectivity from both
\* countries and telegram from IT on every day, one empty object, and the
\* minicans under raw/ from 2020-10-20 on.
Bucket ==
  {JsonlObject(tn, cc, d, "n0", 1) :
     tn \in {"webconnectivity"}, cc \in CountryCodes, d \in Days}
  \cup {JsonlObject("telegram", "IT", d, "n0", 2) : d \in Days}
  \cup {JsonlObject("webconnectivity", "IT", 1, "n1", 0)}
  \cup {RawObject("webconnectivity", cc, d, "n0", 1) :
          cc \in CountryCodes, d \in {x \in Days : x >= D_2020_10_20}}

\* An S3 prefix is kept as its "/"-separated components; a trailing "/" is a
\* last component "".  Every component of a key that a prefix of the code
\* can end in has a fixed length, so a prefix matches a key when its
\* components equal the first components of the key.
PrefixMatches(prefix, key) ==
  /\ Len(prefix) <= Len(key)
  /\ \A i \in 1..Len(prefix) :
       (i = Len(prefix) /\ prefix[i] = "") \/ prefix[i] = key[i]

\* iter_file_entries: the listing of a prefix, each object parsed into a
\* FileEntry from its filename.
file_entry_of(obj) ==
  LET filename == obj.key[Len(obj.key)]
      parts == filename
      seg == parts[3]
  IN [day |-> strptime(parts[1][1]),
      country_code |-> parts[2],
      test_name |-> seg[1],
      filename |-> filename,
      s3path |-> obj.key,
      size |-> obj.size,
      ext |-> seg[4],
      bucket_name |-> "ooni-data-eu-fra"]

list_file_entries(prefix) ==
  {file_entry_of(obj) : obj \in {o \in Bucket : PrefixMatches(prefix, o.key)}}

\* date_interval(start_day, end_day): the days from start_day up to, and
\* without, the earlier of end_day and today.  A missing start_day, or one
\* that is not before today, raises inside the generator.
date_interval(start_day, end_day) ==
  IF start_day = NoDay \/ start_day >= Today
  THEN [raised |-> TRUE, days |-> {}]
  ELSE [raised |-> FALSE,
        days |-> {d \in 0..(Len(DayNames) - 1) :
                    start_day <= d /\ d < Min(end_day, Today)}]

\* list_all_testnames: the common prefixes under jsonl/
list_all_testnames ==
  {o.key[2] : o \in {x \in Bucket : x.key[1] = "jsonl"}}

\* get_search_prefixes: jsonl/<tn>/<cc>/ for every country directory found
\* under jsonl/<tn>/, kept when ccs is empty or names the country.
get_search_prefixes(testnames, ccs) ==
  {<<"jsonl", tn, cc, "">> :
     tn \in testnames,
     cc \in {c \in CountryCodes :
               /\ ccs = {} \/ c \in ccs}}
  \cap {<<"jsonl", o.key[2], o.key[3], "">> :
          o \in {x \in Bucket : x.key[1] = "jsonl"}}

\* FileEntry.matches_filter
matches_filter(f, ccs, testnames) ==
  IF f.country_code # "" /\ ccs # {} /\ f.country_code \notin ccs THEN FALSE
  ELSE IF f.test_name # "" /\ testnames # {} /\ f.test_name \notin testnames
       THEN FALSE
       ELSE TRUE

\* A faulty variant of get_jsonl_prefixes: the per-day prefixes are
\* listed on top of the coarse ones.
get_jsonl_prefixes_both(ccs, testnames, start_day, end_day) ==
  LET tns == IF testnames = {} THEN list_all_testnames ELSE testnames
      search == get_search_prefixes(tns, ccs)
      combos == search \X date_interval(start_day, end_day).days
  IN search
     \cup {SubSeq(c[1], 1, 3) \o <<strftime(c[2])>> : c \in combos}
     \cup {<<"raw", strftime(d)>> :
             d \in date_interval(Max(D_2020_10_20, start_day), end_day).days}

\* get_jsonl_prefixes(ccs, testnames, start_day, end_day)
get_jsonl_prefixes(ccs, testnames, start_day, end_day) ==
  LET legacy_prefixes ==
        {<<"raw", strftime(d)>> :
           d \in date_interval(Max(D_2020_10_20, start_day), end_day).days}
      tns == IF testnames = {} THEN list_all_testnames ELSE testnames
      search == get_search_prefixes(tns, ccs)
      combos == search \X date_interval(start_day, end_day).days
      prefixes ==
        IF start_day < D_2020_10_21
        THEN IF Cardinality(combos) > ComboLimit
             THEN {SubSeq(c[1], 1, 3) \o <<strftime(c[2])>> : c \in combos}
             ELSE search
        ELSE {}
  IN prefixes \cup legacy_prefixes

\* The arguments jsonl_in_range is called with: start_day < end_day <= today.
CatInputs ==
  [ccs : SUBSET CountryCodes, testnames : SUBSET TestNames,
   start_day : Days, end_day : 1..Today]

CatStart ==
  /\ cat_in \in {a \in CatInputs : a.start_day < a.end_day}
  /\ cat_pc = "prefixes"
  /\ cat_pending = {}
  /\ cat_listed = {}
  /\ cat_out = {}
  /\ cat_count = 0

\* prefixes = get_jsonl_prefixes(...); pool.imap_unordered(list_file_entries, prefixes)
GetPrefixes ==
  /\ cat_pc = "prefixes"
  /\ cat_pending' = get_jsonl_prefixes(cat_in.ccs, cat_in.testnames,
                                       cat_in.start_day, cat_in.end_day)
  /\ cat_pc' = "listing"
  /\ UNCHANGED <<cat_in, cat_listed, cat_out, cat_count>>

\* A faulty variant of Yielded: the day of an entry is not tested.
Yielded_no_day_test(fe_list) ==
  {f \in fe_list :
     /\ f.ext = "jsonl.gz"
     /\ matches_filter(f, cat_in.ccs, cat_in.testnames)
     /\ f.size > 0}

\* The entries of one listing that jsonl_in_range yields.
Yielded(fe_list) ==
  {f \in fe_list :
     /\ f.ext = "jsonl.gz"
     /\ matches_filter(f, cat_in.ccs, cat_in.testnames)
     /\ ~(f.day < cat_in.start_day \/ f.day >= cat_in.end_day)
     /\ f.size > 0}

\* The listing of one prefix comes back from the pool, in any order among
\* the prefixes, and its entries are filtered and yielded.
PoolResult(prefix) ==
  /\ cat_pc = "listing"
  /\ prefix \in cat_pending
  /\ cat_pending' = cat_pending \ {prefix}
  /\ cat_listed' = cat_listed \cup list_file_entries(prefix)
  /\ cat_out' = cat_out \cup Yielded(list_file_entries(prefix))
  /\ cat_count' = cat_count + Cardinality(Yielded(list_file_entries(prefix)))
  /\ UNCHANGED <<cat_in, cat_pc>>

\* The pool is drained: the generator ends.
CatDone ==
  /\ cat_pc = "listing"
  /\ cat_pending = {}
  /\ cat_pc' = "done"
  /\ UNCHANGED <<cat_in, cat_pending, cat_listed, cat_out, cat_count>>

NextCatalog ==
  \/ GetPrefixes /\ UNCHANGED notCat
  \/ \E prefix \in cat_pending : PoolResult(prefix) /\ UNCHANGED notCat
  \/ CatDone /\ UNCHANGED notCat

InitCatalog ==
  CatStart /\ CacheStart /\ StrIdle /\ WcIdle /\ LmIdle /\ PdIdle /\ LsIdle /\ DiIdle

SpecCatalog == InitCatalog /\ [][NextCatalog]_vars

\* ------------------------------------------------ claims on the catalog

InRange(d) == cat_in.start_day <= d /\ d < cat_in.end_day

\* C5: every yielded entry lies in [start_day, end_day) and passes the
\* country and test-name filters, and an empty filter drops nothing: every
\* listed non-empty jsonl.gz entry in range that no non-empty filter rejects
\* is yielded.
C5_FilterSound ==
  /\ \A f \in cat_out :
       /\ InRange(f.day)
       /\ (cat_in.ccs # {} => f.country_code \in cat_in.ccs)
       /\ (cat_in.testnames # {} => f.test_name \in cat_in.testnames)
  /\ \A f \in cat_listed :
       ( /\ f.ext = "jsonl.gz" /\ f.size > 0 /\ InRange(f.day)
         /\ (cat_in.ccs = {} \/ f.country_code \in cat_in.ccs)
         /\ (cat_in.testnames = {} \/ f.test_name \in cat_in.testnames) )
       => f \in cat_out

\* A finished listing with both filters set that yielded some entries,
\* dropped a listed jsonl entry of another day and met a listed entry of
\* another country.
C5_Witness ==
  /\ cat_pc = "done"
  /\ cat_in.ccs = {"IT"}
  /\ cat_in.testnames = {"webconnectivity"}
  /\ cat_out # {}
  /\ \E f \in cat_listed : f.ext = "jsonl.gz" /\ ~InRange(f.day)
  /\ \E f \in cat_listed : f.country_code = "VE"

\* The objects of the jsonl/ layout that the arguments ask for.
Wanted ==
  {o \in Bucket :
     /\ o.key[1] = "jsonl"
     /\ o.size > 0
     /\ InRange(strptime(o.key[4]))
     /\ (cat_in.ccs = {} \/ o.key[3] \in cat_in.ccs)
     /\ (cat_in.testnames = {} \/ o.key[2] \in cat_in.testnames)}

\* C6: when jsonl_in_range has ended, every object of the jsonl/ layout
\* (here: every non-empty one) whose day, country and test name the
\* arguments ask for has been yielded.
C6_FilterComplete ==
  cat_pc = "done" =>
    \A o \in Wanted : \E f \in cat_out : f.s3path = o.key

\* The same for the ranges that start before 2020-10-21.
C6_CompleteBeforeCutoff ==
  (cat_pc = "done" /\ cat_in.start_day < D_2020_10_21) =>
    \A o \in Wanted : \E f \in cat_out : f.s3path = o.key

\* The (prefix, day) combinations of the arguments.
Combos ==
  get_search_prefixes(
    IF cat_in.testnames = {} THEN list_all_testnames ELSE cat_in.testnames,
    cat_in.ccs)
  \X date_interval(cat_in.start_day, cat_in.end_day).days

\* A prefix of the jsonl/ layout that names a day.
PerDay(prefix) == prefix[1] = "jsonl" /\ prefix[4] # ""

\* C22: the jsonl/ prefixes handed to the listing workers name a day each
\* when the combinations are at most the limit, and are the coarser
\* jsonl/<test_name>/<cc>/ prefixes when they are more.
C22_PerDayUpToLimit ==
  cat_pc = "listing" =>
    \A prefix \in cat_pending :
      prefix[1] = "jsonl" =>
        (PerDay(prefix) <=> Cardinality(Combos) <= ComboLimit)

\* What the code does: the prefixes name a day each only when the
\* combinations are more than the limit.
C22_PerDayAboveLimit ==
  cat_pc = "listing" =>
    \A prefix \in cat_pending :
      prefix[1] = "jsonl" =>
        (PerDay(prefix) <=> Cardinality(Combos) > ComboLimit)

\* str(day), as in f"canned/{day}/"
IsoNames == <<"2020-10-19", "2020-10-20", "2020-10-21", "2020-10-22",
              "2020-10-23", "2020-10-24", "2020-10-25">>
isoformat(d) == IsoNames[d + 1]

\* The objects of the bucket ooni-data: a can and the index of every day up
\* to 2020-10-21.
CanBucket ==
  {[key |-> <<"canned", isoformat(d), name>>, size |-> 1] :
     d \in {x \in Days : x <= D_2020_10_21},
     name \in {"web_connectivity.0.tar.lz4", "index.json.gz"}}

\* iter_cans_on_s3_for_a_day(day): the cans under canned/<day>/, by bucket
\* and key; index.json.gz is passed over.
iter_cans_on_s3_for_a_day(day) ==
  {[bucket_name |-> "ooni-data", s3path |-> o.key] :
     o \in {x \in CanBucket :
              x.key[2] = isoformat(day) /\ x.key[3] # "index.json.gz"}}

\* iter_minicans_on_s3_for_a_day(day): the tar.gz entries under raw/<day>/.
iter_minicans_on_s3_for_a_day(day) ==
  {f \in list_file_entries(<<"raw", strftime(day), "">>) : f.ext = "tar.gz"}

\* (bucket_name, s3path)
ObjectId(f) == <<f.bucket_name, f.s3path>>
ObjectIds(entries) == {ObjectId(f) : f \in entries}

\* The prefixes of the arguments.
RangePrefixes ==
  get_jsonl_prefixes(cat_in.ccs, cat_in.testnames,
                     cat_in.start_day, cat_in.end_day)

\* The days stream_cans goes through for the arguments.
RangeDays == date_interval(cat_in.start_day, cat_in.end_day).days

\* C26: jsonl_in_range yields no object twice: the yields are as many as
\* the objects yielded, the listings of two prefixes share no object, and
\* at the end the yielded set is the one the arguments fix, whatever the
\* order the listings came back in; the listings stream_cans makes for
\* the days of the range share no object with each other nor with what
\* jsonl_in_range yields.
C26_EachObjectOnce ==
  /\ cat_count = Cardinality(ObjectIds(cat_out))
  /\ cat_pc # "prefixes" =>
       \A p, q \in RangePrefixes :
         p # q => ObjectIds(list_file_entries(p))
                    \cap ObjectIds(list_file_entries(q)) = {}
  /\ cat_pc = "done" =>
       cat_out = Yielded(UNION {list_file_entries(p) : p \in RangePrefixes})
  /\ \A d \in RangeDays :
       /\ ObjectIds(iter_cans_on_s3_for_a_day(d))
            \cap ObjectIds(iter_minicans_on_s3_for_a_day(d)) = {}
       /\ ObjectIds(cat_out)
            \cap (ObjectIds(iter_cans_on_s3_for_a_day(d))
                  \cup ObjectIds(iter_minicans_on_s3_for_a_day(d))) = {}
       /\ \A e \in RangeDays \ {d} :
            (ObjectIds(iter_cans_on_s3_for_a_day(d))
               \cup ObjectIds(iter_minicans_on_s3_for_a_day(d)))
            \cap (ObjectIds(iter_cans_on_s3_for_a_day(e))
                    \cup ObjectIds(iter_minicans_on_s3_for_a_day(e))) = {}

\* The range [2020-10-20, 2020-10-22) without filters, listed to its end:
\* jsonl prefixes and raw/ prefixes were listed, cans and minicans exist
\* for the days, and several entries were yielded.
C26_Witness ==
  /\ cat_pc = "done"
  /\ cat_in.ccs = {} /\ cat_in.testnames = {}
  /\ cat_in.start_day = D_2020_10_20 /\ cat_in.end_day = Today
  /\ cat_count >= 2
  /\ \E f \in cat_listed : f.ext = "tar.gz"
  /\ \E p \in RangePrefixes : p[1] = "jsonl"
  /\ \A d \in RangeDays :
       iter_cans_on_s3_for_a_day(d) # {} /\ iter_minicans_on_s3_for_a_day(d) # {}

\* ===================================================================
\* Part 3: the streaming driver, s3feeder.py stream_measurements
\* ===================================================================

\* The containers a batch may name: what the listing says of the size, how
\* many records load_multiple yields from the file, and whether it raises
\* after them (a malformed line, an unsupported extension).
StreamFiles ==
  <<[size |-> 2, records |-> 2, raises |-> FALSE],
    [size |-> 0, records |-> 1, raises |-> FALSE],
    [size |-> 1, records |-> 1, raises |-> TRUE],
    [size |-> 0, records |-> 0, raises |-> TRUE]>>

StreamIds == DOMAIN StreamFiles

\* The batches: every sequence of distinct containers.
Batches ==
  {b \in UNION {[1..n -> StreamIds] : n \in 0..Len(StreamFiles)} :
     \A i, j \in DOMAIN b : i # j => b[i] # b[j]}

\* sum(map(lambda fe: fe.size, ...)) over the entries an iterator still has.
RECURSIVE SumSizes(_, _)
SumSizes(entries, from) ==
  IF from >= Len(entries) THEN 0
  ELSE StreamFiles[entries[from + 1]].size + SumSizes(entries, from + 1)

\* file_entries is a list (restartable) or a generator (single pass), as
\* stream_cans and stream_jsonl pass it.
StrStart ==
  /\ str_in \in [entries : Batches, single_pass : BOOLEAN,
                 keep_s3_cache : BOOLEAN]
  /\ str_pc = "sum"
  /\ str_cursor = 0
  /\ str_pos = 0
  /\ str_cur = 0
  /\ str_rec = 0
  /\ str_total = 0
  /\ str_processed = 0
  /\ str_cached = {}
  /\ str_downloads = <<>>
  /\ str_out = <<>>

\* total_size = sum(map(lambda fe: fe.size, file_entries)); processed_size = 0
\* The sum iterates file_entries to its end; the for loop that follows asks
\* file_entries for an iterator again: a list starts over, a generator is
\* its own iterator and stays where the sum left it.
TotalSize ==
  /\ str_pc = "sum"
  /\ str_total' = SumSizes(str_in.entries, str_cursor)
  /\ str_cursor' = IF str_in.single_pass THEN Len(str_in.entries) ELSE str_cursor
  /\ str_pos' = IF str_in.single_pass THEN Len(str_in.entries) ELSE 0
  /\ str_processed' = 0
  /\ str_pc' = "next"
  /\ UNCHANGED <<str_in, str_cur, str_rec, str_cached, str_downloads, str_out>>

\* for fe in file_entries: the next entry, or the end of the loop.
NextEntry ==
  /\ str_pc = "next"
  /\ IF str_pos < Len(str_in.entries)
     THEN /\ str_cur' = str_in.entries[str_pos + 1]
          /\ str_pos' = str_pos + 1
          /\ str_cursor' = IF str_in.single_pass THEN str_pos + 1 ELSE str_cursor
          /\ str_pc' = "download"
     ELSE /\ str_pc' = "done"
          /\ UNCHANGED <<str_cur, str_pos, str_cursor>>
  /\ UNCHANGED <<str_in, str_rec, str_total, str_processed, str_cached,
                 str_downloads, str_out>>

\* mc = download_measurement_container(s3cachedir, fe) returns.
DownloadReturns ==
  /\ str_pc = "download"
  /\ str_downloads' = Append(str_downloads, str_cur)
  /\ str_cached' = str_cached \cup {str_cur}
  /\ str_rec' = 0
  /\ str_pc' = "stream"
  /\ UNCHANGED <<str_in, str_cursor, str_pos, str_cur, str_total,
                 str_processed, str_out>>

\* download_measurement_container raises (a transfer error, the size
\* assertion): nothing catches it and the generator ends with it.
DownloadRaises ==
  /\ str_pc = "download"
  /\ str_downloads' = Append(str_downloads, str_cur)
  /\ str_pc' = "raised"
  /\ UNCHANGED <<str_in, str_cursor, str_pos, str_cur, str_rec, str_total,
                 str_processed, str_cached, str_out>>

\* A faulty variant of YieldRecord: the record goes in front of the
\* records yielded before it.
YieldRecord_in_front ==
  /\ str_pc = "stream"
  /\ str_rec < StreamFiles[str_cur].records
  /\ str_out' = <<<<str_cur, str_rec + 1>>>> \o str_out
  /\ str_rec' = str_rec + 1
  /\ UNCHANGED <<str_in, str_pc, str_cursor, str_pos, str_cur, str_total,
                 str_processed, str_cached, str_downloads>>

\* yield from load_multiple(mc.as_posix()): one record.
YieldRecord ==
  /\ str_pc = "stream"
  /\ str_rec < StreamFiles[str_cur].records
  /\ str_out' = Append(str_out, <<str_cur, str_rec + 1>>)
  /\ str_rec' = str_rec + 1
  /\ UNCHANGED <<str_in, str_pc, str_cursor, str_pos, str_cur, str_total,
                 str_processed, str_cached, str_downloads>>

\* load_multiple ends, or raises and the except clause logs the error.
StreamEnds ==
  /\ str_pc = "stream"
  /\ str_rec = StreamFiles[str_cur].records
  /\ str_pc' = "progress"
  /\ UNCHANGED <<str_in, str_cursor, str_pos, str_cur, str_rec, str_total,
                 str_processed, str_cached, str_downloads, str_out>>

\* processed_size += fe.size; mbps = processed_size / elapsed / 1_000_000;
\* eta = timedelta(seconds=(total_size - processed_size) / (mbps * 1_000_000))
\* The elapsed time is positive; mbps is 0 when processed_size is, and the
\* division by it raises ZeroDivisionError out of the generator.
Progress ==
  /\ str_pc = "progress"
  /\ str_processed' = str_processed + StreamFiles[str_cur].size
  /\ str_pc' = IF str_processed' = 0 THEN "raised" ELSE "unlink"
  /\ UNCHANGED <<str_in, str_cursor, str_pos, str_cur, str_rec, str_total,
                 str_cached, str_downloads, str_out>>

\* A faulty variant of Unlink: keep_s3_cache is not looked at.
Unlink_always ==
  /\ str_pc = "unlink"
  /\ str_cached' = str_cached \ {str_cur}
  /\ str_pc' = "next"
  /\ UNCHANGED <<str_in, str_cursor, str_pos, str_cur, str_rec, str_total,
                 str_processed, str_downloads, str_out>>

\* if not keep_s3_cache: mc.unlink()
Unlink ==
  /\ str_pc = "unlink"
  /\ str_cached' = IF str_in.keep_s3_cache THEN str_cached
                   ELSE str_cached \ {str_cur}
  /\ str_pc' = "next"
  /\ UNCHANGED <<str_in, str_cursor, str_pos, str_cur, str_rec, str_total,
                 str_processed, str_downloads, str_out>>

NextStream ==
  \/ TotalSize /\ UNCHANGED notStr
  \/ NextEntry /\ UNCHANGED notStr
  \/ DownloadReturns /\ UNCHANGED notStr
  \/ DownloadRaises /\ UNCHANGED notStr
  \/ YieldRecord /\ UNCHANGED notStr
  \/ StreamEnds /\ UNCHANGED notStr
  \/ Progress /\ UNCHANGED notStr
  \/ Unlink /\ UNCHANGED notStr

InitStream ==
  StrStart /\ CacheStart /\ CatIdle /\ WcIdle /\ LmIdle /\ PdIdle /\ LsIdle /\ DiIdle

SpecStream == InitStream /\ [][NextStream]_vars

\* ------------------------------------------------- claims on the driver

\* C7: when stream_measurements has gone through a single-pass sequence of
\* file entries, it has downloaded every entry of it exactly once, in order.
C7_SinglePassConsumedOnce ==
  (str_pc = "done" /\ str_in.single_pass) => str_downloads = str_in.entries

\* The same for a list of file entries.
C7_ListConsumedOnce ==
  (str_pc = "done" /\ ~str_in.single_pass) => str_downloads = str_in.entries

\* The records load_multiple yields from a container, in its order.
RecordsOf(id) == [k \in 1..StreamFiles[id].records |-> <<id, k>>]

\* The records of the entries of a batch from position from, entry by entry.
RECURSIVE AllRecords(_, _)
AllRecords(entries, from) ==
  IF from >= Len(entries) THEN <<>>
  ELSE RecordsOf(entries[from + 1]) \o AllRecords(entries, from + 1)

\* C11: when load_multiple has raised while one entry of a list was
\* streamed, the driver goes on with the batch: the step after the logged
\* failure does not end the generator, and once the batch is done every
\* entry has been downloaded and all their records have been yielded.
C11_FileFailureContinues ==
  /\ [][(str_pc = "progress" /\ StreamFiles[str_cur].raises)
          => str_pc' # "raised"]_vars
  /\ []((str_pc = "done" /\ ~str_in.single_pass)
          => /\ str_downloads = str_in.entries
             /\ str_out = AllRecords(str_in.entries, 0))

\* What the code does: the batch goes on after a failed file when some
\* bytes have been processed by then.
C11_ContinuesWhenProcessed ==
  /\ [][(str_pc = "progress" /\ StreamFiles[str_cur].raises
           /\ str_processed + StreamFiles[str_cur].size > 0)
          => str_pc' = "unlink"]_vars
  /\ []((str_pc = "done" /\ ~str_in.single_pass)
          => /\ str_downloads = str_in.entries
             /\ str_out = AllRecords(str_in.entries, 0))

\* C27: the progress report after an entry never ends the stream: the
\* speed and ETA are computed without an exception whatever the sizes of
\* the entries, also when nothing has been processed so far.
C27_ProgressNeverAborts ==
  [][str_pc = "progress" => str_pc' = "unlink"]_vars

\* What the code does: the progress report ends the stream exactly when
\* every entry taken so far has size 0, and is passed otherwise.
C27_AbortsWhileNothingProcessed ==
  [][str_pc = "progress" =>
       IF \A i \in 1..str_pos : StreamFiles[str_in.entries[i]].size = 0
       THEN str_pc' = "raised"
       ELSE str_pc' = "unlink"]_vars

\* C18: a cached container is removed only when keep_s3_cache is false,
\* and then only the container just streamed, after load_multiple has
\* ended or failed on it; while its records are being yielded the
\* container is in the cache.
C18_KeepCacheControlsUnlink ==
  /\ [](str_pc = "stream" => str_cur \in str_cached)
  /\ [][str_cached' # str_cached \cup str_cached'
          => /\ ~str_in.keep_s3_cache
             /\ str_cached \ str_cached' = {str_cur}
             /\ str_pc = "unlink"
             /\ str_rec = StreamFiles[str_cur].records]_vars

\* A list of two entries streamed to its end without keep_s3_cache: both
\* containers were cached, their records yielded, and the cache is empty.
C18_Witness ==
  /\ str_pc = "done"
  /\ ~str_in.keep_s3_cache
  /\ ~str_in.single_pass
  /\ Len(str_downloads) >= 2
  /\ Len(str_out) >= 3
  /\ str_cached = {}

\* ===================================================================
\* Part 4: processing.py web_connectivity_processor
\* ===================================================================

\* Longest list of DNS queries and of TLS handshakes of a measurement.
MaxQueries == 2
MaxHandshakes == 2

NULL == "NULL"

\* The DNS queries a measurement may hold: an answer, two answers, the same
\* address under a second domain, a CNAME answer, a failed query.
QueryKinds ==
  {[hostname |-> "d1", answers |-> <<"ip1">>, failure |-> NULL],
   [hostname |-> "d1", answers |-> <<"ip1", "ip2">>, failure |-> NULL],
   [hostname |-> "d2", answers |-> <<"ip1">>, failure |-> NULL],
   [hostname |-> "d2", answers |-> <<"d1">>, failure |-> NULL],
   [hostname |-> "d1", answers |-> <<>>, failure |-> "dns_nxdomain_error"]}

\* The TLS handshakes: valid and invalid certificates on a resolved address,
\* and a handshake with an address that no query resolved.
HandshakeKinds ==
  {[ip |-> "ip1", is_certificate_valid |-> "true"],
   [ip |-> "ip1", is_certificate_valid |-> "false"],
   [ip |-> "ip3", is_certificate_valid |-> "true"]}

SeqsUpTo(S, n) == UNION {[1..k -> S] : k \in 0..n}

Measurements ==
  [queries : SeqsUpTo(QueryKinds, MaxQueries),
   tls_handshakes : SeqsUpTo(HandshakeKinds, MaxHandshakes),
   tcp_connect : {<<>>, <<"ip1">>, <<"ip2", "ip1">>},
   requests : {<<>>, <<"http://a/">>, <<"http://a/", "http://proxy.org/">>}]

\* An observation: its table, the place of its sub-event in the source list
\* and the attributes the claims are about.
Obs(table, src) ==
  [db_table |-> table, src |-> src, domain_name |-> NULL, answer |-> NULL,
   ip |-> NULL, failure |-> NULL, is_certificate_valid |-> NULL,
   is_tls_consistent |-> NULL, request_url |-> NULL]

RECURSIVE Flatten(_)
Flatten(ss) == IF ss = <<>> THEN <<>> ELSE Head(ss) \o Flatten(Tail(ss))

\* make_dns_observations: one observation per resolved answer, one failure
\* observation for a failed query.
make_dns_observations(queries) ==
  Flatten([qi \in DOMAIN queries |->
    LET q == queries[qi] IN
      IF q.failure # NULL
      THEN <<[Obs("dns", <<qi, 0>>) EXCEPT !.domain_name = q.hostname,
                                            !.failure = q.failure]>>
      ELSE [ai \in DOMAIN q.answers |->
              [Obs("dns", <<qi, ai>>) EXCEPT !.domain_name = q.hostname,
                                             !.answer = q.answers[ai]]]])

\* dict.get(key, None)
Get(dict, key) == IF key \in DOMAIN dict THEN dict[key] ELSE NULL

\* A faulty variant of DictOf: the first observation of a key keeps its
\* value.
DictOf_first_wins(observations, key, value) ==
  [k \in {observations[i][key] : i \in DOMAIN observations} |->
     LET first == CHOOSE i \in DOMAIN observations :
                    /\ observations[i][key] = k
                    /\ \A j \in DOMAIN observations :
                         observations[j][key] = k => j >= i
     IN observations[first][value]]

\* {key(obs): value(obs) for obs in observations}: a later observation
\* replaces the value an earlier one set for the same key.
DictOf(observations, key, value) ==
  [k \in {observations[i][key] : i \in DOMAIN observations} |->
     LET last == CHOOSE i \in DOMAIN observations :
                   /\ observations[i][key] = k
                   /\ \A j \in DOMAIN observations :
                        observations[j][key] = k => j <= i
     IN observations[last][value]]

\* make_tcp_observations: one observation per connect, the domain looked up
\* in ip_to_domain.
make_tcp_observations(connects, ip_to_domain) ==
  [i \in DOMAIN connects |->
     [Obs("tcp", <<i, 0>>) EXCEPT !.ip = connects[i],
                                  !.domain_name = Get(ip_to_domain, connects[i])]]

\* make_tls_observations: one observation per handshake, the domain looked
\* up in ip_to_domain.
make_tls_observations(handshakes, ip_to_domain) ==
  [i \in DOMAIN handshakes |->
     [Obs("tls", <<i, 0>>) EXCEPT
        !.ip = handshakes[i].ip,
        !.domain_name = Get(ip_to_domain, handshakes[i].ip),
        !.is_certificate_valid = handshakes[i].is_certificate_valid]]

\* make_http_observations: one observation per request.
make_http_observations(requests) ==
  [i \in DOMAIN requests |->
     [Obs("http", <<i, 0>>) EXCEPT !.request_url = requests[i]]]

Reverse(seq) == [i \in DOMAIN seq |-> seq[Len(seq) + 1 - i]]

\* The observation classes: the base class of each and the names it
\* annotates itself, in declaration order.  Observation annotates the
\* header; TLSObservation extends TCPObservation and annotates ip again.
ObsClasses ==
  [Observation |->
     [base |-> NULL, annotations |-> <<"measurement_uid", "src", "db_table">>],
   DNSObservation |->
     [base |-> "Observation",
      annotations |-> <<"db_table", "domain_name", "answer", "failure",
                        "is_tls_consistent">>],
   TCPObservation |->
     [base |-> "Observation",
      annotations |-> <<"db_table", "domain_name", "ip", "failure">>],
   TLSObservation |->
     [base |-> "TCPObservation",
      annotations |-> <<"db_table", "ip", "is_certificate_valid">>],
   HTTPObservation |->
     [base |-> "Observation",
      annotations |-> <<"db_table", "request_url", "failure">>]]

\* observation.__class__
class_of(observation) ==
  CASE observation.db_table = "dns" -> "DNSObservation"
    [] observation.db_table = "tcp" -> "TCPObservation"
    [] observation.db_table = "tls" -> "TLSObservation"
    [] OTHER -> "HTTPObservation"

\* inspect.getmro(cls), without object
RECURSIVE getmro(_)
getmro(cls) ==
  IF cls = NULL THEN <<>> ELSE <<cls>> \o getmro(ObsClasses[cls].base)

\* The names of a list of classes, class by class, without db_table.
RECURSIVE AnnotatedNames(_)
AnnotatedNames(classes) ==
  IF classes = <<>> THEN <<>>
  ELSE SelectSeq(ObsClasses[Head(classes)].annotations,
                 LAMBDA name : name # "db_table")
       \o AnnotatedNames(Tail(classes))

\* A faulty variant of observation_attrs: the classes are taken in the
\* order of the mro, the derived class first.
observation_attrs_derived_first(obs_class) == AnnotatedNames(getmro(obs_class))

\* observation_attrs: for cls in reversed(inspect.getmro(obs_class)), the
\* names cls annotates, db_table left out.
observation_attrs(obs_class) == AnnotatedNames(Reverse(getmro(obs_class)))

\* getattr(observation, name, None)
getattr(observation, name) ==
  IF name \in DOMAIN observation THEN observation[name] ELSE NULL

\* The keys of a dict filled in the order of names: a key stays where it
\* was first set.
RECURSIVE DictKeys(_)
DictKeys(names) ==
  IF names = <<>> THEN <<>>
  ELSE LET front == DictKeys(SubSeq(names, 1, Len(names) - 1))
           last == names[Len(names)]
       IN IF \E k \in DOMAIN front : front[k] = last THEN front
          ELSE Append(front, last)

\* make_observation_row: row[name] = getattr(observation, name, None) for
\* every name of observation_attrs(observation.__class__).
make_observation_row(observation) ==
  [name \in Range(observation_attrs(class_of(observation))) |->
     getattr(observation, name)]

\* list(row.keys()) of that row.
row_keys(observation) == DictKeys(observation_attrs(class_of(observation)))

\* A faulty variant of write_observations_to_db: the observations are
\* written last first.
write_observations_to_db_reversed(db, observations) ==
  db \o [i \in DOMAIN observations |->
           [table |-> Reverse(observations)[i].db_table,
            row |-> make_observation_row(Reverse(observations)[i]),
            keys |-> row_keys(Reverse(observations)[i])]]

\* write_observations_to_db: one write_row(obs.db_table, row) per observation.
write_observations_to_db(db, observations) ==
  db \o [i \in DOMAIN observations |->
           [table |-> observations[i].db_table,
            row |-> make_observation_row(observations[i]),
            keys |-> row_keys(observations[i])]]

WcStart ==
  /\ wc_msmt \in Measurements
  /\ wc_pc = "http"
  /\ wc_dns = <<>>
  /\ wc_tls = <<>>
  /\ wc_ip_to_domain = <<>>
  /\ wc_db = <<>>

\* http_observations = make_http_observations(...); write_observations_to_db
WriteHttp ==
  /\ wc_pc = "http"
  /\ wc_db' = write_observations_to_db(
                wc_db, make_http_observations(wc_msmt.requests))
  /\ wc_pc' = "dns"
  /\ UNCHANGED <<wc_msmt, wc_dns, wc_tls, wc_ip_to_domain>>

\* dns_observations = make_dns_observations(...)
\* ip_to_domain = {obs.answer: obs.domain_name for obs in dns_observations}
MakeDns ==
  /\ wc_pc = "dns"
  /\ wc_dns' = make_dns_observations(wc_msmt.queries)
  /\ wc_ip_to_domain' = DictOf(wc_dns', "answer", "domain_name")
  /\ wc_pc' = "tcp"
  /\ UNCHANGED <<wc_msmt, wc_tls, wc_db>>

\* tcp_observations = make_tcp_observations(...); write_observations_to_db
WriteTcp ==
  /\ wc_pc = "tcp"
  /\ wc_db' = write_observations_to_db(
                wc_db,
                make_tcp_observations(wc_msmt.tcp_connect, wc_ip_to_domain))
  /\ wc_pc' = "tls"
  /\ UNCHANGED <<wc_msmt, wc_dns, wc_tls, wc_ip_to_domain>>

\* tls_observations = make_tls_observations(...); write_observations_to_db
WriteTls ==
  /\ wc_pc = "tls"
  /\ wc_tls' = make_tls_observations(wc_msmt.tls_handshakes, wc_ip_to_domain)
  /\ wc_db' = write_observations_to_db(wc_db, wc_tls')
  /\ wc_pc' = "enrich"
  /\ UNCHANGED <<wc_msmt, wc_dns, wc_ip_to_domain>>

\* A faulty variant of EnrichDns: the observations are passed on as they
\* were made.
EnrichDns_skipped ==
  /\ wc_pc = "enrich"
  /\ wc_pc' = "write_dns"
  /\ UNCHANGED <<wc_msmt, wc_dns, wc_tls, wc_ip_to_domain, wc_db>>

\* tls_valid_domain_to_ip = {obs.domain: obs.is_certificate_valid for ...}
\* dns_obs.is_tls_consistent = tls_valid_domain_to_ip.get(dns_obs.answer, None)
EnrichDns ==
  /\ wc_pc = "enrich"
  /\ LET tls_valid_domain_to_ip ==
           DictOf(wc_tls, "domain_name", "is_certificate_valid")
     IN wc_dns' = [i \in DOMAIN wc_dns |->
                     [wc_dns[i] EXCEPT !.is_tls_consistent =
                        Get(tls_valid_domain_to_ip, wc_dns[i].answer)]]
  /\ wc_pc' = "write_dns"
  /\ UNCHANGED <<wc_msmt, wc_tls, wc_ip_to_domain, wc_db>>

\* write_observations_to_db(db, enriched_dns_observations)
WriteDns ==
  /\ wc_pc = "write_dns"
  /\ wc_db' = write_observations_to_db(wc_db, wc_dns)
  /\ wc_pc' = "done"
  /\ UNCHANGED <<wc_msmt, wc_dns, wc_tls, wc_ip_to_domain>>

NextWc ==
  \/ WriteHttp /\ UNCHANGED notWc
  \/ MakeDns /\ UNCHANGED notWc
  \/ WriteTcp /\ UNCHANGED notWc
  \/ WriteTls /\ UNCHANGED notWc
  \/ EnrichDns /\ UNCHANGED notWc
  \/ WriteDns /\ UNCHANGED notWc

InitWc ==
  WcStart /\ CacheStart /\ CatIdle /\ StrIdle /\ LmIdle /\ PdIdle /\ LsIdle /\ DiIdle

SpecWc == InitWc /\ [][NextWc]_vars

\* ---------------------------------------------- claims on the processor

\* The TLS observations made for a domain.
TlsFor(d) == {j \in DOMAIN wc_tls : wc_tls[j].domain_name = d}

\* C8: the DNS row written for an answer of domain d carries in
\* is_tls_consistent the certificate validity of a TLS handshake for d,
\* and NULL when there is no TLS observation for d.
C8_CrossLinking ==
  wc_pc = "done" =>
    \A i \in DOMAIN wc_db :
      (wc_db[i].table = "dns" /\ wc_db[i].row.answer # NULL) =>
        LET r == wc_db[i].row IN
          IF TlsFor(r.domain_name) # {}
          THEN \E j \in TlsFor(r.domain_name) :
                 r.is_tls_consistent = wc_tls[j].is_certificate_valid
          ELSE r.is_tls_consistent = NULL

\* What the code computes instead: the validity that the last TLS
\* observation whose domain equals the ANSWER of the row carries.
C8_KeyedByAnswer ==
  wc_pc = "done" =>
    \A i \in DOMAIN wc_db :
      wc_db[i].table = "dns" =>
        LET r == wc_db[i].row
            m == {j \in DOMAIN wc_tls : wc_tls[j].domain_name = r.answer}
        IN IF m = {} THEN r.is_tls_consistent = NULL
           ELSE \E j \in m :
                  /\ r.is_tls_consistent = wc_tls[j].is_certificate_valid
                  /\ \A k \in m : k <= j

SpecOrder(t) == CASE t = "dns" -> 1 [] t = "tcp" -> 2 [] t = "tls" -> 3
                  [] t = "http" -> 4

CodeOrder(t) == CASE t = "http" -> 1 [] t = "tcp" -> 2 [] t = "tls" -> 3
                  [] t = "dns" -> 4

\* src of row i comes before src of row j in the source list.
SrcBefore(a, b) == a[1] < b[1] \/ (a[1] = b[1] /\ a[2] < b[2])

SourceOrderInCategory ==
  \A i, j \in DOMAIN wc_db :
    (i < j /\ wc_db[i].table = wc_db[j].table)
      => SrcBefore(wc_db[i].row.src, wc_db[j].row.src)

\* Number of sub-events of a category in the measurement.
SubEvents(t) ==
  CASE t = "http" -> Len(wc_msmt.requests)
    [] t = "tcp" -> Len(wc_msmt.tcp_connect)
    [] t = "tls" -> Len(wc_msmt.tls_handshakes)
    [] t = "dns" -> Len(make_dns_observations(wc_msmt.queries))

AllWritten ==
  wc_pc = "done" =>
    \A t \in {"http", "tcp", "tls", "dns"} :
      Cardinality({i \in DOMAIN wc_db : wc_db[i].table = t}) = SubEvents(t)

RECURSIVE DeclaredNames(_)
DeclaredNames(cls) ==
  IF cls = NULL THEN <<>>
  ELSE DeclaredNames(ObsClasses[cls].base) \o ObsClasses[cls].annotations

\* The columns of a class: its declared names without db_table, each once.
ExpectedKeys(cls) ==
  DictKeys(SelectSeq(DeclaredNames(cls), LAMBDA name : name # "db_table"))

\* The write_row call an observation is due.
ExpectedCall(obs) ==
  [table |-> obs.db_table,
   row |-> [name \in Range(ExpectedKeys(class_of(obs))) |->
              IF name \in DOMAIN obs THEN obs[name] ELSE NULL],
   keys |-> ExpectedKeys(class_of(obs))]

\* The write_row calls made for a table, in order.
CallsOf(t) == SelectSeq(wc_db, LAMBDA call : call.table = t)

ExpectedCalls(observations) ==
  [i \in DOMAIN observations |-> ExpectedCall(observations[i])]

\* C19: every write_row call carries the columns of the observation's class
\* in declaration order, base classes first, without db_table, the same
\* list for every call of a class, with null for an attribute the
\* observation does not carry; and when the processor is done each list of
\* observations has got exactly one call per observation, in list order.
C19_WriterContract ==
  /\ \A i \in DOMAIN wc_db :
       /\ \A k \in DOMAIN wc_db[i].keys : wc_db[i].keys[k] # "db_table"
       /\ \A k, l \in DOMAIN wc_db[i].keys :
            wc_db[i].keys[k] = wc_db[i].keys[l] => k = l
       /\ DOMAIN wc_db[i].row = Range(wc_db[i].keys)
       /\ wc_db[i].row.measurement_uid = NULL
  /\ \A i, j \in DOMAIN wc_db :
       wc_db[i].table = wc_db[j].table => wc_db[i].keys = wc_db[j].keys
  /\ (wc_pc = "done" =>
        /\ CallsOf("http") =
             ExpectedCalls(make_http_observations(wc_msmt.requests))
        /\ CallsOf("tcp") =
             ExpectedCalls(make_tcp_observations(wc_msmt.tcp_connect,
                                                 wc_ip_to_domain))
        /\ CallsOf("tls") = ExpectedCalls(wc_tls)
        /\ CallsOf("dns") = ExpectedCalls(wc_dns))

\* A measurement with two TLS handshakes and two requests, all written.
C19_Witness ==
  /\ wc_pc = "done"
  /\ Len(CallsOf("tls")) = 2
  /\ Len(CallsOf("http")) = 2
  /\ Len(CallsOf("tcp")) >= 1
  /\ Len(CallsOf("dns")) >= 2
  /\ CallsOf("tls")[1].keys =
       <<"measurement_uid", "src", "domain_name", "ip", "failure",
         "is_certificate_valid">>

\* C23: a DNS row is written only in the last step of the processor, when
\* the TLS observations have been made and written, and it carries the
\* is_tls_consistent value looked up in them; every TCP and TLS row
\* carries the domain that ip_to_domain of the measurement gives its ip.
C23_EnrichedBeforeWritten ==
  /\ [](\A i \in DOMAIN wc_db :
          /\ wc_db[i].table = "dns" =>
               /\ wc_pc = "done"
               /\ wc_db[i].row.is_tls_consistent =
                    Get(DictOf(wc_tls, "domain_name", "is_certificate_valid"),
                        wc_db[i].row.answer)
          /\ wc_db[i].table \in {"tcp", "tls"} =>
               wc_db[i].row.domain_name =
                 Get(DictOf(make_dns_observations(wc_msmt.queries),
                            "answer", "domain_name"),
                     wc_db[i].row.ip))
  /\ [][CallsOf("dns")' # CallsOf("dns")
          => /\ wc_pc = "write_dns"
             /\ CallsOf("tls") = ExpectedCalls(wc_tls)
             /\ UNCHANGED wc_tls]_vars

\* A measurement whose rows are written, with a DNS row that got a value
\* from a TLS observation and a TCP row that got a domain.
C23_Witness ==
  /\ wc_pc = "done"
  /\ \E i \in DOMAIN wc_db :
       wc_db[i].table = "dns" /\ wc_db[i].row.is_tls_consistent # NULL
  /\ \E i \in DOMAIN wc_db :
       wc_db[i].table = "tcp" /\ wc_db[i].row.domain_name # NULL
  /\ \E i \in DOMAIN wc_db :
       wc_db[i].table = "tls" /\ wc_db[i].row.domain_name # NULL

\* The queries of the measurement that have a among their answers.
QueriesAnswering(a) ==
  {qi \in DOMAIN wc_msmt.queries :
     \E ai \in DOMAIN wc_msmt.queries[qi].answers :
       wc_msmt.queries[qi].answers[ai] = a}

\* C24: once ip_to_domain is built, every answer of every query of the
\* measurement is a key of it, mapped to the hostname of the last query,
\* in measurement order, that has this answer.
C24_IpToDomainLastWins ==
  wc_pc \notin {"http", "dns"} =>
    \A qi \in DOMAIN wc_msmt.queries :
      \A ai \in DOMAIN wc_msmt.queries[qi].answers :
        LET a == wc_msmt.queries[qi].answers[ai]
            last == CHOOSE q \in QueriesAnswering(a) :
                      \A r \in QueriesAnswering(a) : r <= q
        IN /\ a \in DOMAIN wc_ip_to_domain
           /\ wc_ip_to_domain[a] = wc_msmt.queries[last].hostname

\* ip1 is the answer of a query for d1 and of a later query for d2.
C24_Witness ==
  /\ wc_pc = "tcp"
  /\ Len(wc_msmt.queries) = 2
  /\ wc_msmt.queries[1].hostname = "d1"
  /\ wc_msmt.queries[2].hostname = "d2"
  /\ QueriesAnswering("ip1") = {1, 2}
  /\ wc_ip_to_domain["ip1"] = "d2"

\* ===================================================================
\* Part 5: the container reader, s3feeder.py load_multiple
\* ===================================================================

\* Longest tar archive (members) and longest member or file (lines).
MaxMembers == 2
MaxLines == 2

\* A line of a JSON member or file: a measurement, or bytes that
\* ujson.loads rejects.
JsonLines == {"bad", "r1"}
\* What the YAML normalizer yields.
YamlRecords == {"r1"}

\* The members of a legacy tar.lz4 can.
CanMembers ==
  [suffix : {"json"}, lines : SeqsUpTo(JsonLines, MaxLines)]
  \cup [suffix : {"yaml"}, lines : SeqsUpTo(YamlRecords, MaxLines)]
  \cup [suffix : {"txt"}, lines : {<<>>}]

\* The members of a minican: <dir>/<base>.<suffix> holding an envelope with
\* a format and a content, or bytes that ujson.loads rejects.
PostMembers ==
  {[base |-> "u1", suffix |-> "post", body |-> "json", content |-> "r1"],
   [base |-> "u2", suffix |-> "post", body |-> "bad", content |-> NULL],
   [base |-> "u3", suffix |-> "post", body |-> "yaml", content |-> "r1"],
   [base |-> "u4", suffix |-> "post", body |-> "invalid", content |-> "r1"],
   [base |-> "u5", suffix |-> "txt", body |-> "json", content |-> "r1"]}

\* The files load_multiple may be given, by the end of the path:
\* "/index.json.gz" is an index file under a directory, "index.json.gz" one
\* given by its bare name.
Containers ==
  [ext : {"tar.lz4"}, members : SeqsUpTo(CanMembers, MaxMembers)]
  \cup [ext : {"json.lz4", "jsonl.gz"},
        members : {<<[suffix |-> "json", lines |-> l]>> :
                     l \in SeqsUpTo(JsonLines, MaxLines)}]
  \cup [ext : {"yaml.lz4"},
        members : {<<[suffix |-> "yaml", lines |-> l]>> :
                     l \in SeqsUpTo(YamlRecords, MaxLines)}]
  \cup [ext : {"tar.gz"}, members : SeqsUpTo(PostMembers, MaxMembers)]
  \cup [ext : {"/index.json.gz", "index.json.gz", "txt"}, members : {<<>>}]

\* trivial_id(msm): a hash of the record.
trivial_id(msm) == <<"trivial_id", msm>>

\* A yielded tuple (None, msm, msmt_uid).
MsmtTup(msm, uid) == [msm |-> msm, uid |-> uid]

LmStart ==
  /\ lm_in \in Containers
  /\ lm_pc = "open"
  /\ lm_m = 0
  /\ lm_l = 0
  /\ lm_out = <<>>

\* The dispatch on the end of the filename.
LmOpen ==
  /\ lm_pc = "open"
  /\ lm_pc' = CASE lm_in.ext \in {"tar.lz4", "tar.gz"} -> "members"
                [] lm_in.ext \in {"json.lz4", "jsonl.gz", "yaml.lz4"} -> "lines"
                [] lm_in.ext = "/index.json.gz" -> "done"
                [] OTHER -> "raised"
  /\ lm_m' = IF lm_in.ext \in {"json.lz4", "jsonl.gz", "yaml.lz4"} THEN 1 ELSE 0
  /\ UNCHANGED <<lm_in, lm_l, lm_out>>

\* .tar.lz4: m = tf.next(); the lines of a .json or .yaml member are read
\* next, any other member is passed over.
LmNextMember ==
  /\ lm_pc = "members"
  /\ lm_in.ext = "tar.lz4"
  /\ lm_m < Len(lm_in.members)
  /\ lm_m' = lm_m + 1
  /\ lm_l' = 0
  /\ lm_pc' = IF lm_in.members[lm_m + 1].suffix \in {"json", "yaml"}
              THEN "lines" ELSE "members"
  /\ UNCHANGED <<lm_in, lm_out>>

\* A faulty variant of LmLine: the uid is made of the record and of its
\* place in the file.
LmLine_uid_by_place ==
  /\ lm_pc = "lines"
  /\ lm_l < Len(lm_in.members[lm_m].lines)
  /\ LET line == lm_in.members[lm_m].lines[lm_l + 1] IN
       IF lm_in.members[lm_m].suffix = "json" /\ line = "bad"
       THEN /\ lm_pc' = "raised"
            /\ UNCHANGED lm_out
       ELSE /\ lm_out' = Append(lm_out,
                           MsmtTup(line, <<trivial_id(line), lm_m, lm_l>>))
            /\ lm_pc' = lm_pc
  /\ lm_l' = lm_l + 1
  /\ UNCHANGED <<lm_in, lm_m>>

\* msm = ujson.loads(line); msmt_uid = trivial_id(msm); yield: nothing
\* catches what ujson.loads raises.  The records of a YAML member come from
\* the normalizer.
LmLine ==
  /\ lm_pc = "lines"
  /\ lm_l < Len(lm_in.members[lm_m].lines)
  /\ LET line == lm_in.members[lm_m].lines[lm_l + 1] IN
       IF lm_in.members[lm_m].suffix = "json" /\ line = "bad"
       THEN /\ lm_pc' = "raised"
            /\ UNCHANGED lm_out
       ELSE /\ lm_out' = Append(lm_out, MsmtTup(line, trivial_id(line)))
            /\ lm_pc' = lm_pc
  /\ lm_l' = lm_l + 1
  /\ UNCHANGED <<lm_in, lm_m>>

\* The member or the file is at its end.
LmLinesEnd ==
  /\ lm_pc = "lines"
  /\ lm_l = Len(lm_in.members[lm_m].lines)
  /\ lm_pc' = IF lm_in.ext = "tar.lz4" THEN "members" ELSE "done"
  /\ UNCHANGED <<lm_in, lm_m, lm_l, lm_out>>

\* .tar.gz: one member of a minican.  A name that does not end in .post is
\* logged; when ujson.loads raises, the handler evaluates k[:100] on the
\* file object, which raises TypeError out of the handler; a json envelope
\* is yielded with the uid of the member name; others are logged.
LmPost ==
  /\ lm_pc = "members"
  /\ lm_in.ext = "tar.gz"
  /\ lm_m < Len(lm_in.members)
  /\ lm_m' = lm_m + 1
  /\ LET m == lm_in.members[lm_m + 1] IN
       IF m.suffix # "post"
       THEN UNCHANGED <<lm_pc, lm_out>>
       ELSE IF m.body = "bad"
       THEN /\ lm_pc' = "raised"
            /\ UNCHANGED lm_out
       ELSE IF m.body = "json"
       THEN /\ lm_out' = Append(lm_out, MsmtTup(m.content, m.base))
            /\ UNCHANGED lm_pc
       ELSE UNCHANGED <<lm_pc, lm_out>>
  /\ UNCHANGED <<lm_in, lm_l>>

\* m is None: the end of the tarball.
LmTarEnd ==
  /\ lm_pc = "members"
  /\ lm_m = Len(lm_in.members)
  /\ lm_pc' = "done"
  /\ UNCHANGED <<lm_in, lm_m, lm_l, lm_out>>

NextLm ==
  \/ LmOpen /\ UNCHANGED notLm
  \/ LmNextMember /\ UNCHANGED notLm
  \/ LmLine /\ UNCHANGED notLm
  \/ LmLinesEnd /\ UNCHANGED notLm
  \/ LmPost /\ UNCHANGED notLm
  \/ LmTarEnd /\ UNCHANGED notLm

InitLm ==
  LmStart /\ CacheStart /\ CatIdle /\ StrIdle /\ WcIdle /\ PdIdle /\ LsIdle /\ DiIdle

SpecLm == InitLm /\ [][NextLm]_vars

\* ------------------------------------------------- claims on the reader

\* The well-formed records of a member, in order.
RECURSIVE GoodLines(_)
GoodLines(lines) ==
  IF lines = <<>> THEN <<>>
  ELSE (IF Head(lines) = "bad" THEN <<>>
        ELSE <<MsmtTup(Head(lines), trivial_id(Head(lines)))>>)
       \o GoodLines(Tail(lines))

\* The well-formed records of a container, in order.
RECURSIVE GoodRecords(_, _)
GoodRecords(ext, members) ==
  IF members = <<>> THEN <<>>
  ELSE LET m == Head(members) IN
       (IF ext = "tar.gz"
        THEN (IF m.suffix = "post" /\ m.body = "json"
              THEN <<MsmtTup(m.content, m.base)>> ELSE <<>>)
        ELSE (IF m.suffix \in {"json", "yaml"} THEN GoodLines(m.lines)
              ELSE <<>>))
       \o GoodRecords(ext, Tail(members))

HasMalformed(c) ==
  \E i \in DOMAIN c.members :
    IF c.ext = "tar.gz"
    THEN c.members[i].suffix = "post" /\ c.members[i].body = "bad"
    ELSE \E k \in DOMAIN c.members[i].lines : c.members[i].lines[k] = "bad"

\* C10: in a container of a known format a malformed record is skipped:
\* the reader does not end with an exception, and when it has ended every
\* well-formed record of the container has been yielded, in order.
C10_MalformedSkipped ==
  lm_in.ext \notin {"txt", "index.json.gz"} =>
    /\ lm_pc # "raised"
    /\ (lm_pc = "done" => lm_out = GoodRecords(lm_in.ext, lm_in.members))

\* What the code does: no container with a malformed record is read to
\* its end.
C10_MalformedRaises ==
  (lm_pc = "done" /\ lm_in.ext # "/index.json.gz") =>
    /\ ~HasMalformed(lm_in)
    /\ lm_out = GoodRecords(lm_in.ext, lm_in.members)

\* C16: when the reading of a minican is over, exactly the json-format
\* .post envelopes of the archive have been yielded, one record each, in
\* member order, with the content as record and the member's base name as
\* uid; so their number is the number of measurements read.
C16_MinicanJsonPosts ==
  (lm_in.ext = "tar.gz" /\ lm_pc \in {"done", "raised"}) =>
    /\ lm_out = GoodRecords(lm_in.ext, lm_in.members)
    /\ Len(lm_out) =
         Cardinality({i \in DOMAIN lm_in.members :
                        /\ lm_in.members[i].suffix = "post"
                        /\ lm_in.members[i].body = "json"})

\* What the code does: the json-format .post envelopes of the members read
\* so far have been yielded, and the archive is read to its end when no
\* .post member fails to parse.
C16_MinicanUpToMalformed ==
  lm_in.ext = "tar.gz" =>
    /\ lm_out = GoodRecords(lm_in.ext, SubSeq(lm_in.members, 1, lm_m))
    /\ (lm_pc = "done" => lm_m = Len(lm_in.members) /\ ~HasMalformed(lm_in))
    /\ (lm_pc = "raised" => lm_in.members[lm_m].body = "bad")

IsPrefix(a, b) == Len(a) <= Len(b) /\ a = SubSeq(b, 1, Len(a))

\* The uids of a sequence of yielded tuples.
Uids(out) == [i \in DOMAIN out |-> out[i].uid]

\* C20: in the .tar.lz4, .json.lz4, .yaml.lz4 and .jsonl.gz formats the uid
\* of a yielded record is trivial_id of that record; in a minican it is the
\* base name of the .post member the record came from; and the uids
\* yielded so far are fixed by the container: they are the first uids of
\* its well-formed records.
C20_UidDerivation ==
  /\ \A i \in DOMAIN lm_out :
       IF lm_in.ext = "tar.gz"
       THEN \E k \in DOMAIN lm_in.members :
              /\ lm_in.members[k].suffix = "post"
              /\ lm_in.members[k].base = lm_out[i].uid
              /\ lm_in.members[k].content = lm_out[i].msm
       ELSE lm_out[i].uid = trivial_id(lm_out[i].msm)
  /\ IsPrefix(Uids(lm_out), Uids(GoodRecords(lm_in.ext, lm_in.members)))

\* A .jsonl.gz file read to its end in which the same record stands on two
\* lines: both were yielded with the same uid.
C20_Witness ==
  /\ lm_pc = "done"
  /\ lm_in.ext = "jsonl.gz"
  /\ Len(lm_out) = 2
  /\ lm_out[1].msm = lm_out[2].msm
  /\ lm_out[1].uid = lm_out[2].uid

\* ------------------------------------ the reader under the driver

\* stream_measurements with load_multiple reading a container.
NextRead ==
  \/ NextStream
  \/ NextLm

InitRead ==
  StrStart /\ LmStart /\ CacheStart /\ CatIdle /\ WcIdle /\ PdIdle /\ LsIdle /\ DiIdle

SpecRead == InitRead /\ [][NextRead]_vars

MaxRecords == 3

\* The measurement a well-formed raw record of the stream loads into.
LoadedMsmt ==
  [queries |-> <<[hostname |-> "d1", answers |-> <<"ip1">>, failure |-> NULL]>>,
   tls_handshakes |-> <<[ip |-> "ip1", is_certificate_valid |-> "true"]>>,
   tcp_connect |-> <<"ip1">>,
   requests |-> <<"http://a/">>]

\* The raw measurements iter_raw_measurements may yield: a web_connectivity
\* measurement, one that load_measurement rejects, one on which the
\* processor raises, and a measurement of a test without a processor.
RawMeasurements ==
  {[test_name |-> "web_connectivity", fails |-> "none"],
   [test_name |-> "web_connectivity", fails |-> "load"],
   [test_name |-> "web_connectivity", fails |-> "process"],
   [test_name |-> "telegram", fails |-> "none"]}

\* nettest_processors = {"web_connectivity": web_connectivity_processor}
nettest_processors == {"web_connectivity"}

\* A faulty variant of processor_for: every test name gets the
\* web_connectivity processor.
processor_for_any(test_name) == "web_connectivity_processor"

\* nettest_processors.get(msmt.test_name, default_processor)
processor_for(test_name) ==
  IF test_name \in nettest_processors THEN "web_connectivity_processor"
  ELSE "default_processor"

\* The write_row calls of one web_connectivity_processor call, in order.
web_connectivity_processor(msmt) ==
  LET http == make_http_observations(msmt.requests)
      dns == make_dns_observations(msmt.queries)
      ip_to_domain == DictOf(dns, "answer", "domain_name")
      tcp == make_tcp_observations(msmt.tcp_connect, ip_to_domain)
      tls == make_tls_observations(msmt.tls_handshakes, ip_to_domain)
      tls_valid_domain_to_ip == DictOf(tls, "domain_name", "is_certificate_valid")
      enriched == [i \in DOMAIN dns |->
                     [dns[i] EXCEPT !.is_tls_consistent =
                        Get(tls_valid_domain_to_ip, dns[i].answer)]]
  IN write_observations_to_db(
       write_observations_to_db(
         write_observations_to_db(
           write_observations_to_db(<<>>, http), tcp), tls), enriched)

\* default_processor: print(f"Ignoring {msmt}"), no write_row call.
default_processor(msmt) == <<>>

\* The write_row calls the selected processor makes for a measurement.
ProcessorWrites(name, msmt) ==
  IF name = "web_connectivity_processor" THEN web_connectivity_processor(msmt)
  ELSE default_processor(msmt)

\* The calls of one record, each with the idx of the record.
Tagged(idx, writes) ==
  [i \in DOMAIN writes |->
     [idx |-> idx, table |-> writes[i].table, row |-> writes[i].row,
      keys |-> writes[i].keys]]

PdStart ==
  /\ pd_in \in [records : SeqsUpTo(RawMeasurements, MaxRecords),
                start_at_idx : 0..1]
  /\ pd_pc = "loop"
  /\ pd_idx = 0
  /\ pd_db = <<>>

\* if idx < start_at_idx: continue
PdSkipIdx ==
  /\ pd_pc = "loop"
  /\ pd_idx < Len(pd_in.records)
  /\ pd_idx < pd_in.start_at_idx
  /\ pd_idx' = pd_idx + 1
  /\ UNCHANGED <<pd_in, pd_pc, pd_db>>

\* msmt = load_measurement(raw_msmt); processor = nettest_processors.get(...);
\* processor(msmt, db, fingerprintdb, netinfodb)
PdProcess ==
  /\ pd_pc = "loop"
  /\ pd_idx < Len(pd_in.records)
  /\ pd_idx >= pd_in.start_at_idx
  /\ pd_in.records[pd_idx + 1].fails = "none"
  /\ pd_db' = pd_db \o Tagged(pd_idx,
                ProcessorWrites(
                  processor_for(pd_in.records[pd_idx + 1].test_name),
                  LoadedMsmt))
  /\ pd_idx' = pd_idx + 1
  /\ UNCHANGED <<pd_in, pd_pc>>

\* load_measurement raises: the handler prints the record and raises exc.
PdLoadRaises ==
  /\ pd_pc = "loop"
  /\ pd_idx < Len(pd_in.records)
  /\ pd_idx >= pd_in.start_at_idx
  /\ pd_in.records[pd_idx + 1].fails = "load"
  /\ pd_pc' = "raised"
  /\ pd_idx' = pd_idx + 1
  /\ UNCHANGED <<pd_in, pd_db>>

\* The processor raises after some of its write_row calls: the handler
\* prints the record and raises exc.
PdProcessorRaises ==
  /\ pd_pc = "loop"
  /\ pd_idx < Len(pd_in.records)
  /\ pd_idx >= pd_in.start_at_idx
  /\ pd_in.records[pd_idx + 1].fails = "process"
  /\ \E k \in 0..Len(web_connectivity_processor(LoadedMsmt)) :
       pd_db' = pd_db \o Tagged(pd_idx,
                  SubSeq(web_connectivity_processor(LoadedMsmt), 1, k))
  /\ pd_pc' = "raised"
  /\ pd_idx' = pd_idx + 1
  /\ UNCHANGED pd_in

\* The stream of the day is at its end.
PdEnd ==
  /\ pd_pc = "loop"
  /\ pd_idx = Len(pd_in.records)
  /\ pd_pc' = "done"
  /\ UNCHANGED <<pd_in, pd_idx, pd_db>>

NextPd ==
  \/ PdSkipIdx /\ UNCHANGED notPd
  \/ PdProcess /\ UNCHANGED notPd
  \/ PdLoadRaises /\ UNCHANGED notPd
  \/ PdProcessorRaises /\ UNCHANGED notPd
  \/ PdEnd /\ UNCHANGED notPd

InitPd ==
  PdStart /\ CacheStart /\ CatIdle /\ StrIdle /\ WcIdle /\ LmIdle /\ LsIdle /\ DiIdle

SpecPd == InitPd /\ [][NextPd]_vars

\* ------------------------------------------- claims on the batch driver

\* C12: a record whose loading or processing raises is skipped: the run
\* does not end with the exception, and when it has ended every record
\* from start_at_idx on has been taken from the stream.
C12_RecordFailureSkipped ==
  /\ pd_pc # "raised"
  /\ (pd_pc = "done" => pd_idx = Len(pd_in.records))

\* What the code does: the first failing record from start_at_idx on ends
\* the run, and no write_row call is made for any record after it.
C12_RecordFailureFatal ==
  \A i \in 1..Len(pd_in.records) :
    (i - 1 >= pd_in.start_at_idx /\ i - 1 < pd_idx
       /\ pd_in.records[i].fails # "none")
      => /\ pd_pc = "raised"
         /\ pd_idx = i
         /\ \A j \in DOMAIN pd_db : pd_db[j].idx <= i - 1

\* C13: the step that handles a measurement of a test without a registered
\* processor makes no write_row call and goes on to the next record.
C13_UnknownTestSkipped ==
  [][(/\ pd_pc = "loop"
      /\ pd_idx < Len(pd_in.records)
      /\ pd_idx >= pd_in.start_at_idx
      /\ pd_in.records[pd_idx + 1].fails = "none"
      /\ pd_in.records[pd_idx + 1].test_name \notin nettest_processors)
     => /\ pd_db' = pd_db
        /\ pd_pc' = "loop"
        /\ pd_idx' = pd_idx + 1]_vars

\* A run in which a telegram measurement was handled between two
\* web_connectivity measurements, both of which were written.
C13_Witness ==
  /\ pd_pc = "done"
  /\ pd_in.start_at_idx = 0
  /\ Len(pd_in.records) = 3
  /\ pd_in.records[2].test_name = "telegram"
  /\ \E j \in DOMAIN pd_db : pd_db[j].idx = 0
  /\ \E j \in DOMAIN pd_db : pd_db[j].idx = 2
  /\ \A j \in DOMAIN pd_db : pd_db[j].idx # 1

\* ===================================================================
\* Part 7: the listings, s3feeder.py iter_cans_on_s3_for_a_day and
\* iter_file_entries
\* ===================================================================

\* Longest page of a listing.
MaxKeys == 3
\* Most requests of a remote listing that fail in a row.
MaxFailures == 4

\* A filename is kept as its tokens: the separators "-", "_" and "." and
\* the text between them; the ten digits that open a new-format filename
\* are two tokens, the day and the hour.

\* str.split(sep, maxsplit)
RECURSIVE SplitMax(_, _, _)
SplitMax(seq, sep, maxsplit) ==
  IF maxsplit = 0 \/ \A i \in DOMAIN seq : seq[i] # sep THEN <<seq>>
  ELSE LET i == CHOOSE k \in DOMAIN seq :
                  seq[k] = sep /\ \A j \in 1..(k - 1) : seq[j] # sep
       IN <<SubSeq(seq, 1, i - 1)>>
          \o SplitMax(SubSeq(seq, i + 1, Len(seq)), sep, maxsplit - 1)

\* str.split(sep)
Split(seq, sep) == SplitMax(seq, sep, Len(seq))

\* str.endswith(suffix)
EndsWith(seq, suffix) ==
  /\ Len(seq) >= Len(suffix)
  /\ SubSeq(seq, Len(seq) - Len(suffix) + 1, Len(seq)) = suffix

\* str.replace("_", "")
Replace(seq) == SelectSeq(seq, LAMBDA t : t # "_")

\* The filenames under canned/<day>/.
CanKeys ==
  {[filename |-> <<"web", "_", "connectivity", ".", "0", ".", "tar", ".", "lz4">>,
    size |-> 3],
   [filename |-> <<"20201020T", "-", "IT", "-", "AS1", "-", "web", "_",
                   "connectivity", "-", "probe", ".", "json", ".", "lz4">>,
    size |-> 2],
   [filename |-> <<"notes", ".", "yaml", ".", "lz4">>, size |-> 1],
   [filename |-> <<"index", ".", "json", ".", "gz">>, size |-> 1],
   [filename |-> <<"README", ".", "txt">>, size |-> 1]}

\* The filenames under a prefix of the new bucket.
EntryKeys ==
  {[filename |-> <<"20201020", "00", "_", "IT", "_", "webconnectivity", ".",
                   "n0", ".", "0", ".", "jsonl", ".", "gz">>, size |-> 2],
   [filename |-> <<"20201020", "00", "_", "IT", "_", "webconnectivity", ".",
                   "n0", ".", "0", ".", "tar", ".", "gz">>, size |-> 3],
   [filename |-> <<"index", ".", "json", ".", "gz">>, size |-> 1],
   [filename |-> <<"20201020", "00", "_", "IT", "_", "webconnectivity", ".",
                   "tar", ".", "gz">>, size |-> 1],
   [filename |-> <<"latest", "_", "IT", "_", "webconnectivity", ".",
                   "n0", ".", "0", ".", "jsonl", ".", "gz">>, size |-> 1]}

Listings ==
  [fn : {"iter_cans_on_s3_for_a_day"}, keys : SeqsUpTo(CanKeys, MaxKeys)]
  \cup [fn : {"iter_file_entries"}, keys : SeqsUpTo(EntryKeys, MaxKeys)]

\* The branch of iter_cans_on_s3_for_a_day a filename takes.
CanBranch(filename) ==
  IF EndsWith(filename, <<".", "tar", ".", "lz4">>) THEN "tar.lz4"
  ELSE IF EndsWith(filename, <<".", "json", ".", "lz4">>)
          \/ EndsWith(filename, <<".", "yaml", ".", "lz4">>) THEN "lz4"
  ELSE "other"

\* parts[1] and parts[3] exist.
CanParses(filename) ==
  CanBranch(filename) = "lz4" => Len(Split(filename, "-")) >= 4

\* The FileEntry of a can.
can_file_entry(key) ==
  LET filename == key.filename IN
  IF CanBranch(filename) = "tar.lz4"
  THEN [country_code |-> <<"XX">>,
        test_name |-> Replace(Split(filename, ".")[1]),
        ext |-> <<"tar", ".", "lz4">>,
        filename |-> filename, size |-> key.size,
        bucket_name |-> "ooni-data"]
  ELSE LET parts == Split(filename, "-")
           dots == Split(filename, ".")
       IN [country_code |-> parts[2],
           test_name |-> Replace(parts[4]),
           ext |-> dots[Len(dots) - 1] \o <<".">> \o dots[Len(dots)],
           filename |-> filename, size |-> key.size,
           bucket_name |-> "ooni-data"]

\* datetime.strptime(s, "%Y%m%d") accepts s.
IsDay(s) == \E d \in 0..(Len(DayNames) - 1) : DayNames[d + 1] = s

\* parts[0][:8]
First8(part) == IF part = <<>> THEN "" ELSE part[1]

\* parts[2] exists, it splits into four segments, and the day parses.
EntryParses(filename) ==
  LET parts == Split(filename, "_") IN
    /\ Len(parts) >= 3
    /\ Len(SplitMax(parts[3], ".", 3)) = 4
    /\ IsDay(First8(parts[1]))

\* The FileEntry of an object of the new bucket.
entry_file_entry(key) ==
  LET parts == Split(key.filename, "_")
      seg == SplitMax(parts[3], ".", 3)
  IN [day |-> strptime(First8(parts[1])),
      country_code |-> parts[2],
      test_name |-> seg[1],
      ext |-> seg[4],
      filename |-> key.filename, size |-> key.size,
      bucket_name |-> "ooni-data-eu-fra"]

LsStart ==
  /\ ls_in \in Listings
  /\ ls_pc = "list"
  /\ ls_i = 0
  /\ ls_out = <<>>
  /\ ls_fails \in 0..MaxFailures
  /\ ls_attempts = 0

\* for r in paginator.paginate(Bucket=..., Prefix=prefix): the request of
\* the page.  An error of the remote listing is raised by paginate; neither
\* listing function nor jsonl_in_range catches it or asks again.
LsPaginate ==
  /\ ls_pc = "list"
  /\ ls_attempts' = ls_attempts + 1
  /\ ls_pc' = IF ls_fails >= ls_attempts' THEN "raised" ELSE "run"
  /\ UNCHANGED <<ls_in, ls_i, ls_out, ls_fails>>

\* iter_cans_on_s3_for_a_day: a .tar.lz4, .json.lz4 or .yaml.lz4 key whose
\* filename parses: yield file_entry.
LsCanYield ==
  /\ ls_pc = "run"
  /\ ls_in.fn = "iter_cans_on_s3_for_a_day"
  /\ ls_i < Len(ls_in.keys)
  /\ CanBranch(ls_in.keys[ls_i + 1].filename) # "other"
  /\ CanParses(ls_in.keys[ls_i + 1].filename)
  /\ ls_out' = Append(ls_out, can_file_entry(ls_in.keys[ls_i + 1]))
  /\ ls_i' = ls_i + 1
  /\ UNCHANGED <<ls_in, ls_pc, ls_fails, ls_attempts>>

\* Any other filename: a warning unless it is index.json.gz; continue.
LsCanSkip ==
  /\ ls_pc = "run"
  /\ ls_in.fn = "iter_cans_on_s3_for_a_day"
  /\ ls_i < Len(ls_in.keys)
  /\ CanBranch(ls_in.keys[ls_i + 1].filename) = "other"
  /\ ls_i' = ls_i + 1
  /\ UNCHANGED <<ls_in, ls_pc, ls_out, ls_fails, ls_attempts>>

\* parts[1] or parts[3] raises IndexError; nothing catches it.
LsCanRaises ==
  /\ ls_pc = "run"
  /\ ls_in.fn = "iter_cans_on_s3_for_a_day"
  /\ ls_i < Len(ls_in.keys)
  /\ ~CanParses(ls_in.keys[ls_i + 1].filename)
  /\ ls_pc' = "raised"
  /\ ls_i' = ls_i + 1
  /\ UNCHANGED <<ls_in, ls_out, ls_fails, ls_attempts>>

\* iter_file_entries: the filename parses: yield file_entry.
LsEntryYield ==
  /\ ls_pc = "run"
  /\ ls_in.fn = "iter_file_entries"
  /\ ls_i < Len(ls_in.keys)
  /\ EntryParses(ls_in.keys[ls_i + 1].filename)
  /\ ls_out' = Append(ls_out, entry_file_entry(ls_in.keys[ls_i + 1]))
  /\ ls_i' = ls_i + 1
  /\ UNCHANGED <<ls_in, ls_pc, ls_fails, ls_attempts>>

\* parts[2] raises IndexError, the unpacking of the four segments or
\* strptime raises ValueError; nothing catches it.
LsEntryRaises ==
  /\ ls_pc = "run"
  /\ ls_in.fn = "iter_file_entries"
  /\ ls_i < Len(ls_in.keys)
  /\ ~EntryParses(ls_in.keys[ls_i + 1].filename)
  /\ ls_pc' = "raised"
  /\ ls_i' = ls_i + 1
  /\ UNCHANGED <<ls_in, ls_out, ls_fails, ls_attempts>>

\* The page is at its end.
LsEnd ==
  /\ ls_pc = "run"
  /\ ls_i = Len(ls_in.keys)
  /\ ls_pc' = "done"
  /\ UNCHANGED <<ls_in, ls_i, ls_out, ls_fails, ls_attempts>>

NextLs ==
  \/ LsPaginate /\ UNCHANGED notLs
  \/ LsCanYield /\ UNCHANGED notLs
  \/ LsCanSkip /\ UNCHANGED notLs
  \/ LsCanRaises /\ UNCHANGED notLs
  \/ LsEntryYield /\ UNCHANGED notLs
  \/ LsEntryRaises /\ UNCHANGED notLs
  \/ LsEnd /\ UNCHANGED notLs

InitLs ==
  LsStart /\ CacheStart /\ CatIdle /\ StrIdle /\ WcIdle /\ LmIdle /\ PdIdle /\ DiIdle

SpecLs == InitLs /\ [][NextLs]_vars

\* ------------------------------------------------ claims on the listings

\* The entries of the well-formed keys of a page, in order.
RECURSIVE WellFormedEntries(_, _)
WellFormedEntries(fn, keys) ==
  IF keys = <<>> THEN <<>>
  ELSE (IF fn = "iter_cans_on_s3_for_a_day"
        THEN (IF CanBranch(Head(keys).filename) # "other"
                 /\ CanParses(Head(keys).filename)
              THEN <<can_file_entry(Head(keys))>> ELSE <<>>)
        ELSE (IF EntryParses(Head(keys).filename)
              THEN <<entry_file_entry(Head(keys))>> ELSE <<>>))
       \o WellFormedEntries(fn, Tail(keys))

\* C14: a key whose filename cannot be parsed is skipped: the listing does
\* not end with an exception, and at its end a FileEntry has been yielded
\* for every well-formed key of the page.
C14_UnparsableSkipped ==
  /\ ~(ls_pc = "raised" /\ ls_i > 0)
  /\ (ls_pc = "done" => ls_out = WellFormedEntries(ls_in.fn, ls_in.keys))

\* What the code does: only a filename that is neither .tar.lz4, .json.lz4
\* nor .yaml.lz4 is skipped, and only by iter_cans_on_s3_for_a_day; a
\* listing reaches its end when every other filename of the page parses.
C14_OnlyOtherExtensionsSkipped ==
  ls_pc = "done" =>
    /\ ls_out = WellFormedEntries(ls_in.fn, ls_in.keys)
    /\ \A i \in DOMAIN ls_in.keys :
         IF ls_in.fn = "iter_cans_on_s3_for_a_day"
         THEN CanParses(ls_in.keys[i].filename)
         ELSE EntryParses(ls_in.keys[i].filename)

\* C21: a failing remote listing is asked again, up to three times: the
\* listing ends with the error of the remote only when the remote has
\* failed that often in a row and that many requests were made, and a
\* listing whose remote fails fewer times in a row is not ended by it.
C21_ListingRetried ==
  /\ (ls_pc = "raised" /\ ls_i = 0) => (ls_fails >= 3 /\ ls_attempts >= 3)
  /\ (ls_pc = "done" => ls_attempts = Min(ls_fails, 3) + 1)

\* What the code does: one request; its failure ends the listing, and
\* nothing is yielded.
C21_FirstFailureFatal ==
  /\ ls_attempts <= 1
  /\ (ls_fails > 0 /\ ls_pc # "list") =>
       (ls_pc = "raised" /\ ls_i = 0 /\ ls_out = <<>>)

\* ------------------------------------------ the names not recognised

\* A listing whose remote does not fail, and load_multiple on a path.
NextNames ==
  \/ NextLs
  \/ NextLm

InitNames ==
  /\ LsStart /\ ls_fails = 0
  /\ LmStart /\ CacheStart /\ CatIdle /\ StrIdle /\ WcIdle /\ PdIdle /\ DiIdle

SpecNames == InitNames /\ [][NextNames]_vars

\* A path naming index.json.gz.
NamesIndex(ext) == ext \in {"/index.json.gz", "index.json.gz"}

\* C25: iter_cans_on_s3_for_a_day yields no FileEntry for index.json.gz;
\* load_multiple yields nothing and raises nothing for a path naming
\* index.json.gz, and for a path that is neither that nor of one of the five
\* formats it raises and yields nothing.
C25_IndexSkippedOthersRaise ==
  /\ \A i \in DOMAIN ls_out :
       ls_out[i].filename # <<"index", ".", "json", ".", "gz">>
  /\ NamesIndex(lm_in.ext) => (lm_pc # "raised" /\ lm_out = <<>>)
  /\ lm_in.ext = "txt" =>
       /\ lm_pc \in {"open", "raised"}
       /\ lm_out = <<>>

\* What the code does: only a path that ends in /index.json.gz is passed
\* over; the bare name index.json.gz raises like any other name.
C25_IndexUnderDirectorySkipped ==
  /\ \A i \in DOMAIN ls_out :
       ls_out[i].filename # <<"index", ".", "json", ".", "gz">>
  /\ lm_in.ext = "/index.json.gz" => (lm_pc \in {"open", "done"} /\ lm_out = <<>>)
  /\ lm_in.ext \in {"txt", "index.json.gz"} =>
       /\ lm_pc \in {"open", "raised"}
       /\ lm_out = <<>>

\* ===================================================================
\* Part 8: date_interval, the generator of the days of a range
\* ===================================================================

\* The days a caller may name: any day of the calendar, before or after
\* today.
AnyDay == 0..(Len(DayNames) - 1)

\* date_interval(start_day, end_day) is called; start_day may be missing.
DiStart ==
  /\ di_in \in [start_day : AnyDay \cup {NoDay}, end_day : AnyDay]
  /\ di_pc = "start"
  /\ di_day = 0
  /\ di_out = <<>>

\* The first next() on the generator runs its body up to the loop:
\*   if not start_day or start_day >= today: raise StopIteration
\* A StopIteration raised in the body of a generator leaves it as a
\* RuntimeError.
DiEnter ==
  /\ di_pc = "start"
  /\ IF di_in.start_day = NoDay \/ di_in.start_day >= Today
     THEN di_pc' = "raised" /\ UNCHANGED di_day
     ELSE di_pc' = "loop" /\ di_day' = di_in.start_day
  /\ UNCHANGED <<di_in, di_out>>

\* stop_day = end_day if end_day < today else today
stop_day == IF di_in.end_day < Today THEN di_in.end_day ELSE Today

\* while day < stop_day: yield day; day += timedelta(days=1)
DiYield ==
  /\ di_pc = "loop"
  /\ di_day < stop_day
  /\ di_out' = Append(di_out, di_day)
  /\ di_day' = di_day + 1
  /\ UNCHANGED <<di_in, di_pc>>

\* The loop condition fails: the generator returns.
DiReturn ==
  /\ di_pc = "loop"
  /\ ~(di_day < stop_day)
  /\ di_pc' = "done"
  /\ UNCHANGED <<di_in, di_day, di_out>>

NextDi ==
  \/ DiEnter /\ UNCHANGED notDi
  \/ DiYield /\ UNCHANGED notDi
  \/ DiReturn /\ UNCHANGED notDi

InitDi ==
  DiStart /\ CacheStart /\ CatIdle /\ StrIdle /\ WcIdle /\ LmIdle /\ PdIdle
  /\ LsIdle

SpecDi == InitDi /\ [][NextDi]_vars

\* The days d with start_day <= d < min(end_day, today).
RangeOf(start_day, end_day) ==
  {d \in AnyDay : start_day <= d /\ d < Min(end_day, Today)}

\* The days yielded so far go up one by one from start_day.
Ascending ==
  \A i \in 1..Len(di_out) : di_out[i] = di_in.start_day + i - 1

\* C28: date_interval yields the days from start_day up to the earlier of
\* end_day and today, each once and in ascending order, and with
\* start_day missing or not before today it ends as an empty sequence
\* without raising.
C28_DateInterval ==
  /\ di_pc # "raised"
  /\ Ascending
  /\ di_pc = "done" =>
       /\ {di_out[i] : i \in 1..Len(di_out)}
            = RangeOf(di_in.start_day, di_in.end_day)
       /\ Len(di_out) = Cardinality(RangeOf(di_in.start_day, di_in.end_day))

\* What the code does: the days of a range that starts before today are
\* yielded once each in ascending order, and a start_day missing or not
\* before today makes the generator raise before it yields anything.
C28_EmptyStartRaises ==
  /\ Ascending
  /\ di_pc = "done" =>
       /\ di_in.start_day # NoDay /\ di_in.start_day < Today
       /\ {di_out[i] : i \in 1..Len(di_out)}
            = RangeOf(di_in.start_day, di_in.end_day)
       /\ Len(di_out) = Cardinality(RangeOf(di_in.start_day, di_in.end_day))
  /\ di_pc = "raised" =>
       /\ di_in.start_day = NoDay \/ di_in.start_day >= Today
       /\ di_out = <<>>
  /\ (di_in.start_day = NoDay \/ di_in.start_day >= Today) =>
       di_pc \in {"start", "raised"}

====
